---------------------------- MODULE Spec2Model ----------------------------
(***************************************************************************)
(* A model of tt-weave's WEB language front end: the nom parser over a     *)
(* token slice (weblang.rs, weblang/expr.rs, weblang/statement.rs,         *)
(* weblang/webtype.rs and the declaration modules) and the Prettifier      *)
(* layout engine (prettify.rs) with the per-node measure_inline /          *)
(* render_inline / render_flex methods.                                    *)
(*                                                                         *)
(* Parsers are operators from a token sequence (the ParseInput slice) to   *)
(* a ParseResult record [ok, rest, val]; Prettifier methods are operators  *)
(* from a Prettifier record to the Prettifier record after the call.       *)
(***************************************************************************)
EXTENDS Integers, Sequences, FiniteSets, TLC

VARIABLES
    syntax,     \* the WebSyntax token sequence handed to the parser
    input,      \* many1's cursor in WebCode::parse: the tokens not yet consumed
    value,      \* many1's accumulator: the toplevels parsed so far
    pc,         \* position in WebCode::parse: "start", "many1" or "done"
    result,     \* what WebCode::parse returned: [some, code]
    dest,       \* the Prettifier
    last,       \* the last call made: its name, argument, return, and the state before
    calls       \* the number of calls made on the Prettifier

vars == <<syntax, input, value, pc, result, dest, last, calls>>

(***************************************************************************)
(* Tokens.  A token is [k |-> kind, v |-> payload]: the PascalToken (or    *)
(* WebToken) variant and, where the variant carries one, its payload.      *)
(* A FormattedIdentifier carries the reserved word it is formatted like.   *)
(***************************************************************************)
Tok(k, v) == [k |-> k, v |-> v]
P(k) == [k |-> k, v |-> ""]

Ident(n) == Tok("Identifier", n)
IntLit(n) == Tok("IntLiteral", n)
RW(w) == Tok("ReservedWord", w)
FmtLike(w) == Tok("FormattedIdentifier", w)
Open(d) == Tok("OpenDelimiter", d)
Close(d) == Tok("CloseDelimiter", d)

Nil == [t |-> "Nil"]

(***************************************************************************)
(* ParseResult: Ok((rest, val)) or Err.  Every Err::Error is the same to   *)
(* alt, opt and many, so the error kind is not kept.                       *)
(***************************************************************************)
Ok(rest, val) == [ok |-> TRUE, rest |-> rest, val |-> val]
Err == [ok |-> FALSE, rest |-> <<>>, val |-> Nil]

\* base::next_token
next_token(in) == IF in = <<>> THEN Err ELSE Ok(Tail(in), Head(in))

\* base::pascal_token(tok): the next token is exactly tok
pascal_token(tok, in) ==
    IF in # <<>> /\ Head(in) = tok THEN Ok(Tail(in), Head(in)) ELSE Err

\* base::reserved_word(word)
reserved_word(w, in) == pascal_token(RW(w), in)

\* base::open_delimiter(kind) / close_delimiter(kind)
open_delimiter(d, in) == pascal_token(Open(d), in)
close_delimiter(d, in) == pascal_token(Close(d), in)

\* base::identifier (the StringSpan of an Identifier token)
identifier(in) ==
    IF in # <<>> /\ Head(in).k = "Identifier" THEN Ok(Tail(in), Head(in)) ELSE Err

\* base::identifier_as_token
identifier_as_token(in) == identifier(in)

\* base::int_literal
int_literal(in) ==
    IF in # <<>> /\ Head(in).k = "IntLiteral" THEN Ok(Tail(in), Head(in)) ELSE Err

\* base::formatted_identifier_like(word)
formatted_identifier_like(w, in) == pascal_token(FmtLike(w), in)

\* base::module_reference
module_reference(in) ==
    IF in # <<>> /\ Head(in).k = "ModuleReference" THEN Ok(Tail(in), Head(in)) ELSE Err

\* base::comment
comment(in) ==
    IF in # <<>> /\ Head(in).k = "Comment" THEN Ok(Tail(in), Head(in)) ELSE Err

\* base::merged_string_literals: one or more adjacent string literal tokens,
\* merged into a single StringLiteral token holding their concatenation.
RECURSIVE merge_strings(_, _)
merge_strings(acc, in) ==
    IF in # <<>> /\ Head(in).k = "StringLiteral"
    THEN merge_strings(acc \o Head(in).v, Tail(in))
    ELSE Ok(in, Tok("StringLiteral", acc))

merged_string_literals(in) ==
    IF in # <<>> /\ Head(in).k = "StringLiteral"
    THEN merge_strings(Head(in).v, Tail(in))
    ELSE Err

\* define::peek_end_of_define: succeeds, consuming nothing, at the end of the input
peek_end_of_define(in) == IF in = <<>> THEN Ok(in, Nil) ELSE Err

\* nom::combinator::opt
opt(r, in) == IF r.ok THEN r ELSE Ok(in, Nil)

(***************************************************************************)
(* The nom combinators the grammar is built from.  The parser an element   *)
(* is parsed with is passed by its name and applied through call.          *)
(***************************************************************************)
RECURSIVE call(_, _)
RECURSIVE separated_list_more(_, _, _, _)
RECURSIVE many_more(_, _, _)

\* separated_list0 / separated_list1, after the first element: a separator
\* and another element, or stop before the separator; a round that consumes
\* nothing is an error of the combinator itself.
separated_list_more(sep, f, acc, in) ==
    LET s == pascal_token(sep, in)
        e == call(f, s.rest)
    IN  IF s.ok /\ e.ok
        THEN IF Len(e.rest) = Len(in) THEN Err
             ELSE separated_list_more(sep, f, Append(acc, e.val), e.rest)
        ELSE Ok(in, acc)

separated_list0(sep, f, in) ==
    LET e == call(f, in) IN
    IF e.ok THEN separated_list_more(sep, f, <<e.val>>, e.rest) ELSE Ok(in, <<>>)

separated_list1(sep, f, in) ==
    LET e == call(f, in) IN
    IF e.ok THEN separated_list_more(sep, f, <<e.val>>, e.rest) ELSE Err

\* many0 / many1, after the elements in acc: stop at the first error; an
\* element that consumes nothing is an error of the combinator itself.
many_more(f, acc, in) ==
    LET r == call(f, in) IN
    IF ~r.ok THEN Ok(in, acc)
    ELSE IF Len(r.rest) = Len(in) THEN Err
    ELSE many_more(f, Append(acc, r.val), r.rest)

many0(f, in) == many_more(f, <<>>, in)

many1(f, in) ==
    LET r == call(f, in) IN
    IF ~r.ok \/ Len(r.rest) = Len(in) THEN Err
    ELSE many_more(f, <<r.val>>, r.rest)

(***************************************************************************)
(* weblang/expr.rs: the expression grammar.                                *)
(***************************************************************************)
RECURSIVE expr_tails(_, _)

\* "Atom" form: parse_token_expr
parse_token_expr(in) ==
    LET r == next_token(in) IN
    IF r.ok /\ (\/ r.val.k \in {"Identifier", "Hash", "IntLiteral", "StringPoolChecksum"}
                \/ r.val = FmtLike("Nil"))
    THEN Ok(r.rest, [t |-> "Token", tok |-> r.val])
    ELSE Err

parse_paren_expr(in) ==
    LET r1 == pascal_token(Open("Paren"), in)
        r2 == call("parse_expr", r1.rest)
        r3 == pascal_token(Close("Paren"), r2.rest)
    IN  IF r1.ok /\ r2.ok /\ r3.ok
        THEN Ok(r3.rest, [t |-> "Paren", inner |-> r2.val])
        ELSE Err

\* A faulty prefix_unary_expr_op: it returns the operator and leaves it in
\* the input
prefix_unary_expr_op_peek(in) ==
    LET r == next_token(in) IN
    IF r.ok /\ (r.val.k \in {"Plus", "Minus"} \/ r.val = RW("not"))
    THEN Ok(in, r.val) ELSE Err

prefix_unary_expr_op(in) ==
    LET r == next_token(in) IN
    IF r.ok /\ (r.val.k \in {"Plus", "Minus"} \/ r.val = RW("not"))
    THEN r ELSE Err

\* A faulty parse_prefix_unary_expr: the operand is an atom only, and the tails
\* that follow it are left to the enclosing loop
parse_prefix_unary_expr_atom(in) ==
    LET r1 == call("prefix_unary_expr_op", in)
        r2 == call("parse_token_expr", r1.rest)
    IN  IF r1.ok /\ r2.ok
        THEN Ok(r2.rest, [t |-> "PrefixUnary", op |-> r1.val, inner |-> r2.val])
        ELSE Err

parse_prefix_unary_expr(in) ==
    LET r1 == call("prefix_unary_expr_op", in)
        r2 == call("parse_expr", r1.rest)
    IN  IF r1.ok /\ r2.ok
        THEN Ok(r2.rest, [t |-> "PrefixUnary", op |-> r1.val, inner |-> r2.val])
        ELSE Err

BinaryOpKinds ==
    {"Plus", "Minus", "Times", "Divide", "Greater", "GreaterEquals",
     "Less", "LessEquals", "Equals", "NotEquals"}

BinaryOpWords == {"and", "div", "mod", "or"}

binary_expr_op(in) ==
    LET r == next_token(in) IN
    IF r.ok /\ (\/ r.val.k \in BinaryOpKinds
                \/ (r.val.k = "ReservedWord" /\ r.val.v \in BinaryOpWords))
    THEN r ELSE Err

\* A faulty binary_tail: the right operand is a single token, so that a chain
\* folds to the left
binary_tail_token_rhs(in) ==
    LET r1 == call("binary_expr_op", in)
        r2 == call("parse_token_expr", r1.rest)
    IN  IF r1.ok /\ r2.ok
        THEN Ok(r2.rest, [t |-> "Binary", op |-> r1.val, rhs |-> r2.val])
        ELSE Err

\* The tails are LeftRecursiveTail values: [t |-> variant, ...]
binary_tail(in) ==
    LET r1 == call("binary_expr_op", in)
        r2 == call("parse_expr", r1.rest)
    IN  IF r1.ok /\ r2.ok
        THEN Ok(r2.rest, [t |-> "Binary", op |-> r1.val, rhs |-> r2.val])
        ELSE Err

postfix_unary_expr_op(in) ==
    LET r == next_token(in) IN
    IF r.ok /\ r.val.k = "Caret" THEN r ELSE Err

postfix_unary_tail(in) ==
    LET r == call("postfix_unary_expr_op", in) IN
    IF r.ok THEN Ok(r.rest, [t |-> "PostfixUnary", op |-> r.val]) ELSE Err

call_tail(in) ==
    LET r1 == open_delimiter("Paren", in)
        r2 == separated_list0(P("Comma"), "parse_expr", r1.rest)
        r3 == close_delimiter("Paren", r2.rest)
    IN  IF r1.ok /\ r2.ok /\ r3.ok
        THEN Ok(r3.rest, [t |-> "Call", args |-> r2.val])
        ELSE Err

range_index_term(in) ==
    LET r1 == call("parse_token_expr", in)
        r2 == pascal_token(P("DoubleDot"), r1.rest)
        r3 == call("parse_expr", r2.rest)
    IN  IF r1.ok /\ r2.ok /\ r3.ok
        THEN Ok(r3.rest, [t |-> "Range", lo |-> r1.val, hi |-> r3.val])
        ELSE Err

index_term(in) ==
    LET r1 == call("range_index_term", in)
        r2 == call("parse_expr", in)
    IN  IF r1.ok THEN r1
        ELSE IF r2.ok THEN Ok(r2.rest, [t |-> "Expr", e |-> r2.val])
        ELSE Err

index_tail(in) ==
    LET r1 == open_delimiter("SquareBracket", in)
        r2 == separated_list0(P("Comma"), "index_term", r1.rest)
        r3 == close_delimiter("SquareBracket", r2.rest)
    IN  IF r1.ok /\ r2.ok /\ r3.ok
        THEN Ok(r3.rest, [t |-> "Index", args |-> r2.val])
        ELSE Err

format_tail(in) ==
    LET r1 == pascal_token(P("Colon"), in)
        r2 == int_literal(r1.rest)
    IN  IF r1.ok /\ r2.ok
        THEN Ok(r2.rest, [t |-> "Format", width |-> r2.val])
        ELSE Err

field_tail(in) ==
    LET r1 == pascal_token(P("Period"), in)
        r2 == identifier(r1.rest)
    IN  IF r1.ok /\ r2.ok
        THEN Ok(r2.rest, [t |-> "Field", field |-> r2.val])
        ELSE Err

\* LeftRecursiveTail::finalize
finalize(tail, head) ==
    CASE tail.t = "Binary" ->
            [t |-> "Binary", lhs |-> head, op |-> tail.op, rhs |-> tail.rhs]
      [] tail.t = "PostfixUnary" ->
            [t |-> "PostfixUnary", inner |-> head, op |-> tail.op]
      [] tail.t = "Call" -> [t |-> "Call", target |-> head, args |-> tail.args]
      [] tail.t = "Index" -> [t |-> "Index", target |-> head, args |-> tail.args]
      [] tail.t = "Field" -> [t |-> "Field", item |-> head, field |-> tail.field]
      [] tail.t = "Format" -> [t |-> "Format", inner |-> head, width |-> tail.width]

\* The alt((binary_tail, call_tail, index_tail, field_tail, format_tail,
\* postfix_unary_tail)) of parse_expr's loop: the first tail that matches.
expr_tail_alt(in) ==
    LET b == call("binary_tail", in)
        c == call("call_tail", in)
        i == call("index_tail", in)
        f == call("field_tail", in)
        w == call("format_tail", in)
        u == call("postfix_unary_tail", in)
    IN  IF b.ok THEN b ELSE IF c.ok THEN c ELSE IF i.ok THEN i
        ELSE IF f.ok THEN f ELSE IF w.ok THEN w ELSE u

\* The loop of parse_expr: fold each matched tail onto the accumulated expression.
expr_tails(in, expr) ==
    LET r == call("expr_tail_alt", in) IN
    IF r.ok THEN expr_tails(r.rest, finalize(r.val, expr)) ELSE Ok(in, expr)

\* The head alt((parse_prefix_unary_expr, parse_paren_expr,
\* merged_string_literals, parse_token_expr)) of parse_expr.
expr_head_alt(in) ==
    LET u == call("parse_prefix_unary_expr", in)
        p == call("parse_paren_expr", in)
        s == merged_string_literals(in)
        k == call("parse_token_expr", in)
    IN  IF u.ok THEN u ELSE IF p.ok THEN p
        ELSE IF s.ok THEN Ok(s.rest, [t |-> "Token", tok |-> s.val])
        ELSE k

parse_expr(in) ==
    LET h == call("expr_head_alt", in) IN
    IF h.ok THEN expr_tails(h.rest, h.val) ELSE Err

\* A faulty lhs_tails: every tail of parse_expr is allowed
lhs_tails_of_expr(in, expr) == expr_tails(in, expr)

\* parse_lhs_expr: a token head, then call, index and field tails only
RECURSIVE lhs_tails(_, _)
lhs_tails(in, expr) ==
    LET c == call("call_tail", in)
        i == call("index_tail", in)
        f == call("field_tail", in)
        r == IF c.ok THEN c ELSE IF i.ok THEN i ELSE f
    IN  IF r.ok THEN lhs_tails(r.rest, finalize(r.val, expr)) ELSE Ok(in, expr)

parse_lhs_expr(in) ==
    LET h == call("parse_token_expr", in) IN
    IF h.ok THEN lhs_tails(h.rest, h.val) ELSE Err

\* parse_case_match_expr: a string literal or token, then at most one call tail
parse_case_match_expr(in) ==
    LET s == merged_string_literals(in)
        k == call("parse_token_expr", in)
        h == IF s.ok THEN Ok(s.rest, [t |-> "Token", tok |-> s.val]) ELSE k
        c == call("call_tail", h.rest)
    IN  IF ~h.ok THEN Err
        ELSE IF c.ok THEN Ok(c.rest, finalize(c.val, h.val))
        ELSE Ok(h.rest, h.val)

(***************************************************************************)
(* weblang/statement.rs: the statement grammar.                            *)
(***************************************************************************)

\* preprocessor_directive::parse_preprocessor_directive_base opens with a
\* meta-comment delimiter followed by a compiler-directive token; no modelled
\* input holds a compiler-directive token.
parse_preprocessor_directive_base(in) == Err

opt_semicolon(in) == opt(pascal_token(P("Semicolon"), in), in)
opt_comment(in) == opt(comment(in), in)

parse_mod_ref_statement(in) ==
    LET r1 == module_reference(in)
        r2 == opt_semicolon(r1.rest)
    IN  IF r1.ok THEN Ok(r2.rest, [t |-> "ModuleReference", name |-> r1.val]) ELSE Err

parse_expr_statement(in) ==
    LET r1 == call("parse_expr", in)
        r2 == opt_semicolon(r1.rest)
        r3 == opt_comment(r2.rest)
    IN  IF r1.ok THEN Ok(r3.rest, [t |-> "Expr", e |-> r1.val, comment |-> r3.val])
        ELSE Err

block_opener(in) ==
    LET r == next_token(in) IN
    IF r.ok /\ (r.val = RW("begin") \/ r.val = FmtLike("Begin")) THEN r ELSE Err

block_closer(in) ==
    LET r == next_token(in) IN
    IF r.ok /\ (r.val = RW("end") \/ r.val = FmtLike("End")) THEN r ELSE Err

parse_block(in) ==
    LET r1 == call("block_opener", in)
        r2 == many0("parse_statement_base", r1.rest)
        r3 == call("block_closer", r2.rest)
        r4 == opt_semicolon(r3.rest)
        r5 == opt_comment(r4.rest)
    IN  IF r1.ok /\ r2.ok /\ r3.ok
        THEN Ok(r5.rest, [t |-> "Block", opener |-> r1.val, stmts |-> r2.val,
                          closer |-> r3.val, post_comment |-> r5.val])
        ELSE Err

\* A faulty parse_assignment: it leaves the semicolon to the next toplevel
parse_assignment_no_semicolon(in) ==
    LET r1 == call("parse_lhs_expr", in)
        r2 == pascal_token(P("Gets"), r1.rest)
        r3 == call("parse_expr", r2.rest)
    IN  IF r1.ok /\ r2.ok /\ r3.ok
        THEN Ok(r3.rest, [t |-> "Assignment", lhs |-> r1.val, rhs |-> r3.val,
                          comment |-> Nil])
        ELSE Err

\* A faulty parse_assignment: the two sides change places in the tree
parse_assignment_swapped(in) ==
    LET r1 == call("parse_lhs_expr", in)
        r2 == pascal_token(P("Gets"), r1.rest)
        r3 == call("parse_expr", r2.rest)
        r4 == opt_semicolon(r3.rest)
        r5 == opt_comment(r4.rest)
    IN  IF r1.ok /\ r2.ok /\ r3.ok
        THEN Ok(r5.rest, [t |-> "Assignment", lhs |-> r3.val, rhs |-> r1.val,
                          comment |-> r5.val])
        ELSE Err

parse_assignment(in) ==
    LET r1 == call("parse_lhs_expr", in)
        r2 == pascal_token(P("Gets"), r1.rest)
        r3 == call("parse_expr", r2.rest)
        r4 == opt_semicolon(r3.rest)
        r5 == opt_comment(r4.rest)
    IN  IF r1.ok /\ r2.ok /\ r3.ok
        THEN Ok(r5.rest, [t |-> "Assignment", lhs |-> r1.val, rhs |-> r3.val,
                          comment |-> r5.val])
        ELSE Err

parse_goto(in) ==
    LET r1 == reserved_word("goto", in)
        r2 == identifier(r1.rest)
        r3 == opt_semicolon(r2.rest)
        r4 == opt_comment(r3.rest)
    IN  IF r1.ok /\ r2.ok
        THEN Ok(r4.rest, [t |-> "Goto", label |-> r2.val, comment |-> r4.val])
        ELSE Err

parse_if(in) ==
    LET r1 == reserved_word("if", in)
        r2 == call("parse_expr", r1.rest)
        r3 == reserved_word("then", r2.rest)
        r4 == call("parse_statement_base", r3.rest)
        e1 == reserved_word("else", r4.rest)
        e2 == call("parse_statement_base", e1.rest)
    IN  IF r1.ok /\ r2.ok /\ r3.ok /\ r4.ok
        THEN IF e1.ok /\ e2.ok
             THEN Ok(e2.rest, [t |-> "If", test |-> r2.val, then |-> r4.val,
                               else_ |-> e2.val])
             ELSE Ok(r4.rest, [t |-> "If", test |-> r2.val, then |-> r4.val,
                               else_ |-> Nil])
        ELSE Err

parse_while(in) ==
    LET r1 == reserved_word("while", in)
        r2 == call("parse_expr", r1.rest)
        r3 == reserved_word("do", r2.rest)
        r4 == call("parse_statement_base", r3.rest)
    IN  IF r1.ok /\ r2.ok /\ r3.ok /\ r4.ok
        THEN Ok(r4.rest, [t |-> "While", test |-> r2.val, do_ |-> r4.val])
        ELSE Err

parse_for(in) ==
    LET r1 == reserved_word("for", in)
        r2 == identifier(r1.rest)
        r3 == pascal_token(P("Gets"), r2.rest)
        r4 == call("parse_expr", r3.rest)
        r5 == reserved_word("to", r4.rest)
        r6 == call("parse_expr", r5.rest)
        r7 == reserved_word("do", r6.rest)
        r8 == call("parse_statement_base", r7.rest)
    IN  IF r1.ok /\ r2.ok /\ r3.ok /\ r4.ok /\ r5.ok /\ r6.ok /\ r7.ok /\ r8.ok
        THEN Ok(r8.rest, [t |-> "For", var |-> r2.val, start |-> r4.val,
                          end |-> r6.val, do_ |-> r8.val])
        ELSE Err

loop_like_identifier(in) == formatted_identifier_like("Xclause", in)

parse_loop(in) ==
    LET r1 == call("loop_like_identifier", in)
        r2 == call("parse_statement_base", r1.rest)
    IN  IF r1.ok /\ r2.ok
        THEN Ok(r2.rest, [t |-> "Loop", keyword |-> r1.val, do_ |-> r2.val])
        ELSE Err

parse_label(in) ==
    LET r1 == identifier(in)
        r2 == pascal_token(P("Colon"), r1.rest)
    IN  IF r1.ok /\ r2.ok THEN Ok(r2.rest, [t |-> "Label", name |-> r1.val]) ELSE Err

\* A faulty parse_case_terminator: the reserved word end closes a case too
parse_case_terminator_or_end(in) ==
    LET r == next_token(in) IN
    IF r.ok /\ (r.val = FmtLike("End") \/ r.val = RW("end")) THEN r ELSE Err

parse_case_terminator(in) ==
    LET r == next_token(in) IN
    IF r.ok /\ r.val = FmtLike("End") THEN r ELSE Err

parse_mod_ref_case_item(in) ==
    LET r1 == module_reference(in)
        r2 == opt_semicolon(r1.rest)
    IN  IF r1.ok THEN Ok(r2.rest, [t |-> "ModuleReference", name |-> r1.val]) ELSE Err

parse_other_cases_tag(in) ==
    LET r == next_token(in) IN
    IF r.ok /\ r.val = FmtLike("Else") THEN r ELSE Err

parse_other_cases_item(in) ==
    LET r1 == call("parse_other_cases_tag", in)
        r2 == call("parse_statement_base", r1.rest)
        r3 == opt_semicolon(r2.rest)
        r4 == opt_comment(r3.rest)
    IN  IF r1.ok /\ r2.ok
        THEN Ok(r4.rest, [t |-> "OtherCases", tag |-> r1.val, stmt |-> r2.val,
                          comment |-> r4.val])
        ELSE Err

case_match_token(in) ==
    LET r == next_token(in) IN
    IF r.ok /\ r.val.k \in {"Identifier", "IntLiteral"} THEN r ELSE Err

\* alt((merged_string_literals, case_match_token))
case_match(in) ==
    LET s == merged_string_literals(in) IN
    IF s.ok THEN s ELSE call("case_match_token", in)

parse_standard_case_item(in) ==
    LET r1 == separated_list1(P("Comma"), "case_match", in)
        r2 == pascal_token(P("Colon"), r1.rest)
        r3 == call("parse_statement_base", r2.rest)
        r4 == opt_semicolon(r3.rest)
        r5 == opt_comment(r4.rest)
    IN  IF r1.ok /\ r2.ok /\ r3.ok
        THEN Ok(r5.rest, [t |-> "Standard", matches |-> r1.val, stmt |-> r3.val,
                          comment |-> r5.val])
        ELSE Err

\* alt((parse_mod_ref_case_item, parse_other_cases_item, parse_standard_case_item))
case_item(in) ==
    LET m == call("parse_mod_ref_case_item", in)
        o == call("parse_other_cases_item", in)
    IN  IF m.ok THEN m ELSE IF o.ok THEN o ELSE call("parse_standard_case_item", in)

parse_case(in) ==
    LET r1 == reserved_word("case", in)
        r2 == identifier(r1.rest)
        r3 == reserved_word("of", r2.rest)
        r4 == many1("case_item", r3.rest)
        r5 == call("parse_case_terminator", r4.rest)
        r6 == opt_semicolon(r5.rest)
    IN  IF r1.ok /\ r2.ok /\ r3.ok /\ r4.ok /\ r5.ok
        THEN Ok(r6.rest, [t |-> "Case", var |-> r2.val, items |-> r4.val])
        ELSE Err

parse_special_free_case(in) ==
    LET r1 == separated_list1(P("Comma"), "merged_string_literals", in)
        r2 == pascal_token(P("Colon"), r1.rest)
        r3 == call("parse_statement_base", r2.rest)
        r4 == opt_semicolon(r3.rest)
    IN  IF r1.ok /\ r2.ok /\ r3.ok
        THEN Ok(r4.rest, [t |-> "SpecialFreeCase", matches |-> r1.val, stmt |-> r3.val])
        ELSE Err

\* The alt of parse_statement_base, as the sequence of its alternatives' results
statement_alternatives(in) ==
    <<call("parse_mod_ref_statement", in),
      call("parse_block", in),
      LET d == call("parse_preprocessor_directive_base", in) IN
          IF d.ok THEN Ok(d.rest, [t |-> "PreprocessorDirective", d |-> d.val]) ELSE Err,
      call("parse_goto", in),
      call("parse_if", in),
      call("parse_while", in),
      call("parse_for", in),
      call("parse_case", in),
      call("parse_assignment", in),
      call("parse_label", in),
      call("parse_loop", in),
      call("parse_special_free_case", in),
      call("parse_expr_statement", in)>>

\* nom::branch::alt: the result of the first alternative that succeeds
alt(results) ==
    IF \E i \in DOMAIN results : results[i].ok
    THEN results[CHOOSE i \in DOMAIN results :
                    results[i].ok /\ \A j \in 1..(i - 1) : ~results[j].ok]
    ELSE Err

parse_statement_base(in) == alt(statement_alternatives(in))

\* The Statement toplevel: a statement and an optional comment
parse_statement(in) ==
    LET r1 == call("parse_statement_base", in)
        r2 == opt_comment(r1.rest)
    IN  IF r1.ok
        THEN Ok(r2.rest, [t |-> "Statement", stmt |-> r1.val, comment |-> r2.val])
        ELSE Err

(***************************************************************************)
(* weblang/webtype.rs: the type grammar.                                   *)
(***************************************************************************)

\* named(name, value): an identifier whose text is name
named(name, ty, in) ==
    LET r == identifier(in) IN
    IF r.ok /\ r.val.v = name THEN Ok(r.rest, [t |-> ty]) ELSE Err

parse_pointer(in) ==
    LET r1 == pascal_token(P("Caret"), in)
        r2 == call("parse_type", r1.rest)
    IN  IF r1.ok /\ r2.ok THEN Ok(r2.rest, [t |-> "Pointer", ty |-> r2.val]) ELSE Err

plus_or_minus(in) ==
    LET p == pascal_token(P("Plus"), in) IN
    IF p.ok THEN p ELSE pascal_token(P("Minus"), in)

parse_unary_range_bound(in) ==
    LET r1 == call("plus_or_minus", in)
        r2 == identifier(r1.rest)
    IN  IF r1.ok /\ r2.ok
        THEN Ok(r2.rest, [t |-> "UnarySymbolic", op |-> r1.val, name |-> r2.val])
        ELSE Err

parse_binary_range_bound(in) ==
    LET r1 == identifier(in)
        r2 == call("plus_or_minus", r1.rest)
        r3 == int_literal(r2.rest)
    IN  IF r1.ok /\ r2.ok /\ r3.ok
        THEN Ok(r3.rest, [t |-> "Symbolic2", name |-> r1.val, op |-> r2.val,
                          lit |-> r3.val])
        ELSE Err

parse_range_bound(in) ==
    LET i == int_literal(in)
        s == merged_string_literals(in)
        b == call("parse_binary_range_bound", in)
        n == identifier(in)
    IN  IF i.ok THEN Ok(i.rest, [t |-> "Literal", tok |-> i.val])
        ELSE IF s.ok THEN Ok(s.rest, [t |-> "Literal", tok |-> s.val])
        ELSE IF b.ok THEN b
        ELSE IF n.ok THEN Ok(n.rest, [t |-> "Symbolic1", name |-> n.val])
        ELSE call("parse_unary_range_bound", in)

parse_range(in) ==
    LET r1 == call("parse_range_bound", in)
        r2 == pascal_token(P("DoubleDot"), r1.rest)
        r3 == call("parse_range_bound", r2.rest)
    IN  IF r1.ok /\ r2.ok /\ r3.ok
        THEN Ok(r3.rest, [t |-> "Range", lo |-> r1.val, hi |-> r3.val])
        ELSE Err

parse_packed_file_of(in) ==
    LET r1 == reserved_word("packed", in)
        r2 == reserved_word("file", r1.rest)
        r3 == reserved_word("of", r2.rest)
        r4 == identifier(r3.rest)
    IN  IF r1.ok /\ r2.ok /\ r3.ok /\ r4.ok
        THEN Ok(r4.rest, [t |-> "PackedFileOf", name |-> r4.val])
        ELSE Err

parse_array(in) ==
    LET r0 == opt(reserved_word("packed", in), in)
        r1 == reserved_word("array", r0.rest)
        r2 == pascal_token(Open("SquareBracket"), r1.rest)
        r3 == separated_list0(P("Comma"), "parse_type", r2.rest)
        r4 == pascal_token(Close("SquareBracket"), r3.rest)
        r5 == reserved_word("of", r4.rest)
        r6 == call("parse_type", r5.rest)
    IN  IF r1.ok /\ r2.ok /\ r3.ok /\ r4.ok /\ r5.ok /\ r6.ok
        THEN Ok(r6.rest, [t |-> "Array", is_packed |-> (r0.val # Nil),
                          axes |-> r3.val, element |-> r6.val])
        ELSE Err

parse_record_field(in) ==
    LET r1 == separated_list1(P("Comma"), "identifier_as_token", in)
        r2 == pascal_token(P("Colon"), r1.rest)
        r3 == call("parse_type", r2.rest)
        r4 == pascal_token(P("Semicolon"), r3.rest)
        r5 == opt_comment(r4.rest)
    IN  IF r1.ok /\ r2.ok /\ r3.ok /\ r4.ok
        THEN Ok(r5.rest, [t |-> "RecordField", names |-> r1.val, ty |-> r3.val,
                          comment |-> r5.val])
        ELSE Err

parse_record(in) ==
    LET r0 == opt(reserved_word("packed", in), in)
        r1 == reserved_word("record", r0.rest)
        r2 == many1("parse_record_field", r1.rest)
        r3 == reserved_word("end", r2.rest)
    IN  IF r1.ok /\ r2.ok /\ r3.ok
        THEN Ok(r3.rest, [t |-> "Record", is_packed |-> (r0.val # Nil),
                          fields |-> r2.val])
        ELSE Err

parse_type(in) ==
    LET u == identifier(in) IN
    alt(<<named("integer", "Integer", in),
          named("real", "Real", in),
          named("boolean", "Boolean", in),
          call("parse_pointer", in),
          call("parse_packed_file_of", in),
          call("parse_record", in),
          call("parse_array", in),
          call("parse_range", in),
          IF u.ok THEN Ok(u.rest, [t |-> "UserDefined", name |-> u.val]) ELSE Err>>)

(***************************************************************************)
(* The declaration modules.                                                *)
(***************************************************************************)
\* label_declaration::parse_label_declaration
parse_label_declaration(in) ==
    LET r1 == reserved_word("label", in)
        r2 == identifier(r1.rest)
        r3 == pascal_token(P("Semicolon"), r2.rest)
        r4 == opt_comment(r3.rest)
    IN  IF r1.ok /\ r2.ok /\ r3.ok
        THEN Ok(r4.rest, [t |-> "LabelDeclaration", name |-> r2.val, comment |-> r4.val])
        ELSE Err

\* modulified_declaration: declaration_keyword
declaration_keyword(in) ==
    LET r == next_token(in) IN
    IF r.ok /\ r.val.k = "ReservedWord" /\ r.val.v \in {"const", "type", "var"}
    THEN Ok(r.rest, r.val.v) ELSE Err

\* modulified_declaration::parse_modulified_declaration
parse_modulified_declaration(in) ==
    LET r1 == call("declaration_keyword", in)
        r2 == module_reference(r1.rest)
    IN  IF r1.ok /\ r2.ok
        THEN Ok(r2.rest, [t |-> "ModulifiedDeclaration", kind |-> r1.val,
                          module |-> r2.val])
        ELSE Err

\* A parse_constant_declaration that takes the reserved word const itself
parse_constant_declaration_with_keyword(in) ==
    LET r0 == reserved_word("const", in)
        r1 == identifier(r0.rest)
        r2 == pascal_token(P("Equals"), r1.rest)
        r3 == int_literal(r2.rest)
        r4 == pascal_token(P("Semicolon"), r3.rest)
        r5 == opt_comment(r4.rest)
    IN  IF r0.ok /\ r1.ok /\ r2.ok /\ r3.ok /\ r4.ok
        THEN Ok(r5.rest, [t |-> "ConstDeclaration", name |-> r1.val, value |-> r3.val,
                          comment |-> r5.val])
        ELSE Err

\* const_declaration::parse_constant_declaration
parse_constant_declaration(in) ==
    LET r1 == identifier(in)
        r2 == pascal_token(P("Equals"), r1.rest)
        r3 == int_literal(r2.rest)
        r4 == pascal_token(P("Semicolon"), r3.rest)
        r5 == opt_comment(r4.rest)
    IN  IF r1.ok /\ r2.ok /\ r3.ok /\ r4.ok
        THEN Ok(r5.rest, [t |-> "ConstDeclaration", name |-> r1.val, value |-> r3.val,
                          comment |-> r5.val])
        ELSE Err

\* var_declaration::parse_var_declaration_base: names, colon, type, semicolon
parse_var_declaration_base(in) ==
    LET r1 == separated_list1(P("Comma"), "identifier", in)
        r2 == pascal_token(P("Colon"), r1.rest)
        r3 == call("parse_type", r2.rest)
        r4 == pascal_token(P("Semicolon"), r3.rest)
        r5 == opt_comment(r4.rest)
    IN  IF r1.ok /\ r2.ok /\ r3.ok /\ r4.ok
        THEN Ok(r5.rest, [t |-> "VarDeclaration", names |-> r1.val, ty |-> r3.val,
                          comment |-> r5.val])
        ELSE Err

parse_var_declaration(in) == call("parse_var_declaration_base", in)

\* type_declaration::parse_type_declaration: name, equals, type, semicolon
parse_type_declaration(in) ==
    LET r1 == identifier(in)
        r2 == pascal_token(P("Equals"), r1.rest)
        r3 == call("parse_type", r2.rest)
        r4 == pascal_token(P("Semicolon"), r3.rest)
        r5 == opt_comment(r4.rest)
    IN  IF r1.ok /\ r2.ok /\ r3.ok /\ r4.ok
        THEN Ok(r5.rest, [t |-> "TypeDeclaration", name |-> r1.val, ty |-> r3.val,
                          comment |-> r5.val])
        ELSE Err

\* define::parse_define and format::parse_format open with the @d and @f control
\* tokens; program_definition with the reserved word program; forward and
\* function definitions with procedure or function.  No modelled input holds
\* one of these tokens, so each of these productions fails on its first token.
parse_define(in) == Err
parse_format(in) == Err
parse_program_definition(in) == Err
parse_forward_declaration_base(in) == Err
parse_forward_declaration(in) == call("parse_forward_declaration_base", in)
parse_function_definition_base(in) == Err
parse_function_definition(in) == call("parse_function_definition_base", in)

\* standalone::parse_standalone: a single Pascal token, with optional comment
parse_standalone(in) ==
    LET r1 == next_token(in)
        r2 == opt_comment(r1.rest)
    IN  IF r1.ok /\ r1.val.k \notin {"ModuleReference", "Comment"}
        THEN Ok(r2.rest, [t |-> "Standalone", token |-> r1.val, comment |-> r2.val])
        ELSE Err

(***************************************************************************)
(* weblang.rs, mod tl_specials: the special toplevel forms.                *)
(***************************************************************************)
parse_special_paren_two_ident(in) ==
    LET r1 == open_delimiter("Paren", in)
        r2 == identifier(r1.rest)
        r3 == identifier(r2.rest)
        r4 == close_delimiter("Paren", r3.rest)
    IN  IF r1.ok /\ r2.ok /\ r3.ok /\ r4.ok
        THEN Ok(r4.rest, [t |-> "SpecialParenTwoIdent", id1 |-> r2.val, id2 |-> r3.val])
        ELSE Err

parse_special_empty_brackets(in) ==
    LET r1 == open_delimiter("SquareBracket", in)
        r2 == close_delimiter("SquareBracket", r1.rest)
    IN  IF r1.ok /\ r2.ok THEN Ok(r2.rest, [t |-> "SpecialEmptyBrackets"]) ELSE Err

relational_ident_op(in) ==
    LET r == next_token(in) IN
    IF r.ok /\ r.val.k \in {"Greater", "GreaterEquals", "Less", "LessEquals",
                            "Equals", "NotEquals"}
    THEN r ELSE Err

parse_special_relational_expr(in) ==
    LET r1 == call("relational_ident_op", in)
        r2 == call("parse_expr", r1.rest)
    IN  IF r1.ok /\ r2.ok
        THEN Ok(r2.rest, [t |-> "SpecialRelationalExpr", op |-> r1.val, e |-> r2.val])
        ELSE Err

parse_special_range(in) ==
    LET r1 == call("parse_expr", in)
        r2 == pascal_token(P("DoubleDot"), r1.rest)
        r3 == call("parse_expr", r2.rest)
    IN  IF r1.ok /\ r2.ok /\ r3.ok
        THEN Ok(r3.rest, [t |-> "SpecialRange", e1 |-> r1.val, e2 |-> r3.val])
        ELSE Err

parse_special_ifdef_function(in) ==
    LET r1 == formatted_identifier_like("Begin", in)
        r2 == call("parse_function_definition_base", r1.rest)
        r3 == formatted_identifier_like("End", r2.rest)
    IN  IF r1.ok /\ r2.ok /\ r3.ok
        THEN Ok(r3.rest, [t |-> "SpecialIfdefFunction", beg |-> r1.val, fd |-> r2.val,
                          end |-> r3.val])
        ELSE Err

parse_special_ifdef_forward(in) ==
    LET r1 == formatted_identifier_like("Begin", in)
        r2 == call("parse_forward_declaration_base", r1.rest)
        r3 == formatted_identifier_like("End", r2.rest)
    IN  IF r1.ok /\ r2.ok /\ r3.ok
        THEN Ok(r3.rest, [t |-> "SpecialIfdefForward", beg |-> r1.val, fd |-> r2.val,
                          end |-> r3.val])
        ELSE Err

parse_special_ifdef_var_decl(in) ==
    LET r0 == opt_comment(in)
        r1 == formatted_identifier_like("Begin", r0.rest)
        r2 == many1("parse_var_declaration_base", r1.rest)
        r3 == formatted_identifier_like("End", r2.rest)
        r4 == opt_comment(r3.rest)
    IN  IF r1.ok /\ r2.ok /\ r3.ok
        THEN Ok(r4.rest, [t |-> "SpecialIfdefVarDeclaration", c1 |-> r0.val,
                          beg |-> r1.val, vds |-> r2.val, end |-> r3.val,
                          c2 |-> r4.val])
        ELSE Err

parse_special_commented_out(in) ==
    LET r1 == pascal_token(Open("MetaComment"), in)
        r2 == call("parse_statement_base", r1.rest)
        r3 == pascal_token(Close("MetaComment"), r2.rest)
    IN  IF r1.ok /\ r2.ok /\ r3.ok
        THEN Ok(r3.rest, [t |-> "SpecialCommentedOut", stmt |-> r2.val])
        ELSE Err

int_list_term(in) ==
    LET a1 == int_literal(in)
        a2 == pascal_token(P("DoubleDot"), a1.rest)
        a3 == int_literal(a2.rest)
        b  == int_literal(in)
        c  == identifier_as_token(in)
        d1 == pascal_token(P("Minus"), in)
        d2 == identifier_as_token(d1.rest)
    IN  IF a1.ok /\ a2.ok /\ a3.ok
        THEN Ok(a3.rest, [t |-> "Range", lo |-> a1.val, hi |-> a3.val])
        ELSE IF b.ok THEN Ok(b.rest, [t |-> "Single", tok |-> b.val])
        ELSE IF c.ok THEN Ok(c.rest, [t |-> "Single", tok |-> c.val])
        ELSE IF d1.ok /\ d2.ok
        THEN Ok(d2.rest, [t |-> "Unary", op |-> d1.val, tok |-> d2.val])
        ELSE Err

\* ( terms ) or [ terms ]
delimited_int_list(d, in) ==
    LET r1 == pascal_token(Open(d), in)
        r2 == separated_list1(P("Comma"), "int_list_term", r1.rest)
        r3 == pascal_token(Close(d), r2.rest)
    IN  IF r1.ok /\ r2.ok /\ r3.ok THEN Ok(r3.rest, r2.val) ELSE Err

parse_special_list_assignment(in) ==
    LET r1 == delimited_int_list("Paren", in)
        r2 == pascal_token(P("Gets"), r1.rest)
        r3 == delimited_int_list("Paren", r2.rest)
    IN  IF r1.ok /\ r2.ok /\ r3.ok
        THEN Ok(r3.rest, [t |-> "SpecialListLiteralAssignment", lhs |-> r1.val,
                          rhs |-> r3.val])
        ELSE Err

parse_special_int_list(in) ==
    LET s == delimited_int_list("SquareBracket", in)
        r == delimited_int_list("Paren", in)
    IN  IF s.ok
        THEN Ok(s.rest, [t |-> "SpecialListLiteral", is_square |-> TRUE, terms |-> s.val])
        ELSE IF r.ok
        THEN Ok(r.rest, [t |-> "SpecialListLiteral", is_square |-> FALSE, terms |-> r.val])
        ELSE Err

parse_special_ident_in_int_list(in) ==
    LET r1 == identifier(in)
        r2 == reserved_word("in", r1.rest)
        r3 == delimited_int_list("SquareBracket", r2.rest)
    IN  IF r1.ok /\ r2.ok /\ r3.ok
        THEN Ok(r3.rest, [t |-> "SpecialIdentInListLiteral", id |-> r1.val,
                          terms |-> r3.val])
        ELSE Err

parse_special_inline_define(in) ==
    LET r1 == call("parse_expr", in)
        r2 == pascal_token(P("Equivalence"), r1.rest)
        r3 == call("parse_expr", r2.rest)
    IN  IF r1.ok /\ r2.ok /\ r3.ok
        THEN Ok(r3.rest, [t |-> "SpecialInlineDefine", lhs |-> r1.val, rhs |-> r3.val])
        ELSE Err

parse_special_comma_exprs(in) ==
    LET r1 == separated_list1(P("Comma"), "parse_expr", in)
        r2 == opt(pascal_token(P("Comma"), r1.rest), r1.rest)
        r3 == peek_end_of_define(r2.rest)
    IN  IF r1.ok /\ r3.ok /\ ~(Len(r1.val) < 2 /\ r2.val = Nil)
        THEN Ok(r3.rest, [t |-> "SpecialCommaExprs", exprs |-> r1.val,
                          trailing_comma |-> (r2.val # Nil)])
        ELSE Err

parse_special_array_macro(in) ==
    LET r1 == pascal_token(Open("SquareBracket"), in)
        r2 == call("parse_expr", r1.rest)
        r3 == pascal_token(P("DoubleDot"), r2.rest)
        r4 == call("parse_expr", r3.rest)
        r5 == pascal_token(Close("SquareBracket"), r4.rest)
        r6 == identifier(r5.rest)
    IN  IF r1.ok /\ r2.ok /\ r3.ok /\ r4.ok /\ r5.ok /\ r6.ok
        THEN Ok(r6.rest, [t |-> "SpecialArrayMacro", e1 |-> r2.val, e2 |-> r4.val,
                          id |-> r6.val])
        ELSE Err

parse_special_float_equality(in) ==
    LET r1 == identifier(in)
        r2 == pascal_token(P("Equals"), r1.rest)
        r3 == pascal_token(P("Period"), r2.rest)
        r4 == int_literal(r3.rest)
    IN  IF r1.ok /\ r2.ok /\ r3.ok /\ r4.ok
        THEN Ok(r4.rest, [t |-> "SpecialFloatEquality", id |-> r1.val, frac |-> r4.val])
        ELSE Err

parse_special_coeff_array(in) ==
    LET r1 == identifier(in)
        r2 == pascal_token(Open("SquareBracket"), r1.rest)
        r3 == int_literal(r2.rest)
        r4 == identifier_as_token(r3.rest)
        r5 == pascal_token(Close("SquareBracket"), r4.rest)
    IN  IF r1.ok /\ r2.ok /\ r3.ok /\ r4.ok /\ r5.ok
        THEN Ok(r5.rest, [t |-> "SpecialCoeffArray", name |-> r1.val, coeff |-> r3.val,
                          base |-> r4.val])
        ELSE Err

parse_special_imbalanced_end(in) ==
    LET r1 == reserved_word("end", in)
        r2 == pascal_token(P("Semicolon"), r1.rest)
        r3 == peek_end_of_define(r2.rest)
    IN  IF r1.ok /\ r2.ok /\ r3.ok
        THEN Ok(r3.rest, [t |-> "SpecialImbalancedEnd"])
        ELSE Err

parse_special_expr_period(in) ==
    LET r1 == call("parse_expr", in)
        r2 == pascal_token(P("Period"), r1.rest)
        r3 == peek_end_of_define(r2.rest)
    IN  IF r1.ok /\ r2.ok /\ r3.ok
        THEN Ok(r3.rest, [t |-> "SpecialExprPeriod", e |-> r1.val])
        ELSE Err

(***************************************************************************)
(* weblang.rs: the toplevel dispatcher and WebCode::parse.                 *)
(***************************************************************************)
is_ignored_token(tok) == tok.k \in {"Formatting", "ForcedEol", "TexString"}

\* take_while(is_ignored_token): the input after its leading ignored tokens
RECURSIVE skip_ignored(_)
skip_ignored(in) ==
    IF in # <<>> /\ is_ignored_token(Head(in)) THEN skip_ignored(Tail(in)) ELSE in

\* A faulty special_alternatives: the list literal is tried before the list
\* assignment that begins with it
special_alternatives_int_list_first(in) ==
    <<call("parse_special_ifdef_forward", in),
      call("parse_special_ifdef_function", in),
      call("parse_special_ifdef_var_decl", in),
      call("parse_special_paren_two_ident", in),
      call("parse_special_empty_brackets", in),
      call("parse_special_relational_expr", in),
      call("parse_special_range", in),
      call("parse_special_commented_out", in),
      call("parse_special_array_macro", in),
      call("parse_special_int_list", in),
      call("parse_special_list_assignment", in),
      call("parse_special_ident_in_int_list", in),
      call("parse_special_inline_define", in),
      call("parse_special_comma_exprs", in),
      call("parse_special_float_equality", in),
      call("parse_special_coeff_array", in),
      call("parse_special_imbalanced_end", in),
      call("parse_special_expr_period", in)>>

\* The inner alt of parse_toplevel: the special forms, in the code's order
special_alternatives(in) ==
    <<call("parse_special_ifdef_forward", in),
      call("parse_special_ifdef_function", in),
      call("parse_special_ifdef_var_decl", in),
      call("parse_special_paren_two_ident", in),
      call("parse_special_empty_brackets", in),
      call("parse_special_relational_expr", in),
      call("parse_special_range", in),
      call("parse_special_commented_out", in),
      call("parse_special_array_macro", in),
      call("parse_special_list_assignment", in),
      call("parse_special_int_list", in),
      call("parse_special_ident_in_int_list", in),
      call("parse_special_inline_define", in),
      call("parse_special_comma_exprs", in),
      call("parse_special_float_equality", in),
      call("parse_special_coeff_array", in),
      call("parse_special_imbalanced_end", in),
      call("parse_special_expr_period", in)>>

\* A faulty toplevel_alternatives: the generic statement is tried before the
\* declarations
toplevel_alternatives_statement_first(in) ==
    <<call("parse_statement", in),
      call("parse_define", in),
      call("parse_format", in),
      call("parse_program_definition", in),
      call("parse_label_declaration", in),
      call("parse_modulified_declaration", in),
      call("parse_forward_declaration", in),
      call("parse_function_definition", in),
      call("parse_constant_declaration", in),
      call("parse_var_declaration", in),
      call("parse_type_declaration", in),
      alt(special_alternatives(in)),
      call("parse_standalone", in)>>

\* The outer alt of parse_toplevel
toplevel_alternatives(in) ==
    <<call("parse_define", in),
      call("parse_format", in),
      call("parse_program_definition", in),
      call("parse_label_declaration", in),
      call("parse_modulified_declaration", in),
      call("parse_forward_declaration", in),
      call("parse_function_definition", in),
      call("parse_constant_declaration", in),
      call("parse_var_declaration", in),
      call("parse_type_declaration", in),
      alt(special_alternatives(in)),
      call("parse_statement", in),
      call("parse_standalone", in)>>

parse_toplevel(in) == alt(toplevel_alternatives(skip_ignored(in)))

\* Parsers are passed to one another by name: call(parser, in) applies the
\* parser of that name to in.
call(parser, in) ==
    CASE parser = "parse_token_expr" -> parse_token_expr(in)
      [] parser = "identifier" -> identifier(in)
      [] parser = "identifier_as_token" -> identifier_as_token(in)
      [] parser = "merged_string_literals" -> merged_string_literals(in)
      [] parser = "parse_paren_expr" -> parse_paren_expr(in)
      [] parser = "prefix_unary_expr_op" -> prefix_unary_expr_op(in)
      [] parser = "parse_prefix_unary_expr" -> parse_prefix_unary_expr(in)
      [] parser = "binary_expr_op" -> binary_expr_op(in)
      [] parser = "binary_tail" -> binary_tail(in)
      [] parser = "postfix_unary_expr_op" -> postfix_unary_expr_op(in)
      [] parser = "postfix_unary_tail" -> postfix_unary_tail(in)
      [] parser = "call_tail" -> call_tail(in)
      [] parser = "range_index_term" -> range_index_term(in)
      [] parser = "index_term" -> index_term(in)
      [] parser = "index_tail" -> index_tail(in)
      [] parser = "format_tail" -> format_tail(in)
      [] parser = "field_tail" -> field_tail(in)
      [] parser = "expr_tail_alt" -> expr_tail_alt(in)
      [] parser = "expr_head_alt" -> expr_head_alt(in)
      [] parser = "parse_expr" -> parse_expr(in)
      [] parser = "parse_lhs_expr" -> parse_lhs_expr(in)
      [] parser = "parse_case_match_expr" -> parse_case_match_expr(in)
      [] parser = "parse_preprocessor_directive_base" -> parse_preprocessor_directive_base(in)
      [] parser = "parse_mod_ref_statement" -> parse_mod_ref_statement(in)
      [] parser = "parse_expr_statement" -> parse_expr_statement(in)
      [] parser = "block_opener" -> block_opener(in)
      [] parser = "block_closer" -> block_closer(in)
      [] parser = "parse_block" -> parse_block(in)
      [] parser = "parse_assignment" -> parse_assignment(in)
      [] parser = "parse_goto" -> parse_goto(in)
      [] parser = "parse_if" -> parse_if(in)
      [] parser = "parse_while" -> parse_while(in)
      [] parser = "parse_for" -> parse_for(in)
      [] parser = "loop_like_identifier" -> loop_like_identifier(in)
      [] parser = "parse_loop" -> parse_loop(in)
      [] parser = "parse_label" -> parse_label(in)
      [] parser = "parse_case_terminator" -> parse_case_terminator(in)
      [] parser = "parse_mod_ref_case_item" -> parse_mod_ref_case_item(in)
      [] parser = "parse_other_cases_tag" -> parse_other_cases_tag(in)
      [] parser = "parse_other_cases_item" -> parse_other_cases_item(in)
      [] parser = "case_match_token" -> case_match_token(in)
      [] parser = "case_match" -> case_match(in)
      [] parser = "parse_standard_case_item" -> parse_standard_case_item(in)
      [] parser = "case_item" -> case_item(in)
      [] parser = "parse_case" -> parse_case(in)
      [] parser = "parse_special_free_case" -> parse_special_free_case(in)
      [] parser = "parse_statement_base" -> parse_statement_base(in)
      [] parser = "parse_statement" -> parse_statement(in)
      [] parser = "parse_pointer" -> parse_pointer(in)
      [] parser = "plus_or_minus" -> plus_or_minus(in)
      [] parser = "parse_unary_range_bound" -> parse_unary_range_bound(in)
      [] parser = "parse_binary_range_bound" -> parse_binary_range_bound(in)
      [] parser = "parse_range_bound" -> parse_range_bound(in)
      [] parser = "parse_range" -> parse_range(in)
      [] parser = "parse_packed_file_of" -> parse_packed_file_of(in)
      [] parser = "parse_array" -> parse_array(in)
      [] parser = "parse_record_field" -> parse_record_field(in)
      [] parser = "parse_record" -> parse_record(in)
      [] parser = "parse_type" -> parse_type(in)
      [] parser = "parse_label_declaration" -> parse_label_declaration(in)
      [] parser = "declaration_keyword" -> declaration_keyword(in)
      [] parser = "parse_modulified_declaration" -> parse_modulified_declaration(in)
      [] parser = "parse_constant_declaration" -> parse_constant_declaration(in)
      [] parser = "parse_var_declaration_base" -> parse_var_declaration_base(in)
      [] parser = "parse_var_declaration" -> parse_var_declaration(in)
      [] parser = "parse_type_declaration" -> parse_type_declaration(in)
      [] parser = "parse_define" -> parse_define(in)
      [] parser = "parse_format" -> parse_format(in)
      [] parser = "parse_program_definition" -> parse_program_definition(in)
      [] parser = "parse_forward_declaration_base" -> parse_forward_declaration_base(in)
      [] parser = "parse_forward_declaration" -> parse_forward_declaration(in)
      [] parser = "parse_function_definition_base" -> parse_function_definition_base(in)
      [] parser = "parse_function_definition" -> parse_function_definition(in)
      [] parser = "parse_standalone" -> parse_standalone(in)
      [] parser = "parse_special_paren_two_ident" -> parse_special_paren_two_ident(in)
      [] parser = "parse_special_empty_brackets" -> parse_special_empty_brackets(in)
      [] parser = "relational_ident_op" -> relational_ident_op(in)
      [] parser = "parse_special_relational_expr" -> parse_special_relational_expr(in)
      [] parser = "parse_special_range" -> parse_special_range(in)
      [] parser = "parse_special_ifdef_function" -> parse_special_ifdef_function(in)
      [] parser = "parse_special_ifdef_forward" -> parse_special_ifdef_forward(in)
      [] parser = "parse_special_ifdef_var_decl" -> parse_special_ifdef_var_decl(in)
      [] parser = "parse_special_commented_out" -> parse_special_commented_out(in)
      [] parser = "int_list_term" -> int_list_term(in)
      [] parser = "parse_special_list_assignment" -> parse_special_list_assignment(in)
      [] parser = "parse_special_int_list" -> parse_special_int_list(in)
      [] parser = "parse_special_ident_in_int_list" -> parse_special_ident_in_int_list(in)
      [] parser = "parse_special_inline_define" -> parse_special_inline_define(in)
      [] parser = "parse_special_comma_exprs" -> parse_special_comma_exprs(in)
      [] parser = "parse_special_array_macro" -> parse_special_array_macro(in)
      [] parser = "parse_special_float_equality" -> parse_special_float_equality(in)
      [] parser = "parse_special_coeff_array" -> parse_special_coeff_array(in)
      [] parser = "parse_special_imbalanced_end" -> parse_special_imbalanced_end(in)
      [] parser = "parse_special_expr_period" -> parse_special_expr_period(in)
      [] parser = "parse_toplevel" -> parse_toplevel(in)

(***************************************************************************)
(* prettify.rs: the Prettifier.                                            *)
(***************************************************************************)
WIDTH == 60

\* The text buffer is the sequence of the strings pushed onto it, a character
\* pushed being a string of length 1; text.len() is the sum of their lengths,
\* added up by halves.
RECURSIVE len(_)
len(text) ==
    IF Len(text) = 0 THEN 0
    ELSE IF Len(text) = 1 THEN Len(text[1])
    ELSE LET h == Len(text) \div 2
         IN  len(SubSeq(text, 1, h)) + len(SubSeq(text, h + 1, Len(text)))

\* usize::saturating_sub
saturating_sub(a, b) == IF a >= b THEN a - b ELSE 0

\* Prettifier::new
new ==
    [full_width |-> WIDTH, indent |-> 0, remaining_width |-> WIDTH,
     newline_needed |-> FALSE, text |-> <<>>, ops |-> <<>>, inserts |-> <<>>]

\* Prettifier::fits
fits(d, width) ==
    LET eff_width == IF d.newline_needed THEN d.full_width - d.indent
                     ELSE d.remaining_width
    IN  width <= eff_width

\* Prettifier::would_fit_on_new_line
would_fit_on_new_line(d, width) == width <= d.full_width - d.indent

\* Prettifier::indent_block, dedent_block, indent_small, dedent_small: the
\* Prettifier after the call (the call returns whether indent changed)
indent_block(d) ==
    IF d.full_width - d.indent > 4 THEN [d EXCEPT !.indent = @ + 4] ELSE d

\* A faulty dedent_block: no check of the indent it leaves
dedent_block_unchecked(d) == [d EXCEPT !.indent = @ - 4]

dedent_block(d) ==
    IF d.indent > 3 THEN [d EXCEPT !.indent = @ - 4] ELSE d

\* A faulty indent_small: no check of the width that is left
indent_small_unchecked(d) == [d EXCEPT !.indent = @ + 2]

indent_small(d) ==
    IF d.full_width - d.indent > 2 THEN [d EXCEPT !.indent = @ + 2] ELSE d

dedent_small(d) ==
    IF d.indent > 1 THEN [d EXCEPT !.indent = @ - 2] ELSE d

\* Prettifier::newline_indent
newline_indent(d) ==
    [d EXCEPT !.text = (@ \o <<"\n">>) \o [i \in 1..d.indent |-> " "],
              !.newline_needed = FALSE,
              !.remaining_width = d.full_width - d.indent]

\* Prettifier::newline_needed
newline_needed(d) == [d EXCEPT !.newline_needed = TRUE]

\* Prettifier::maybe_newline
maybe_newline(d) == IF d.newline_needed THEN newline_indent(d) ELSE d

\* A faulty scope_push: the Pop is recorded ahead of the Push
scope_push_pop_first(d, scope, text) ==
    LET d1 == maybe_newline(d)
        n0 == len(d1.text)
        n1 == n0 + Len(text)
    IN  [d1 EXCEPT !.ops = (@ \o <<[at |-> n1, op |-> "Pop", scope |-> ""]>>)
                               \o <<[at |-> n0, op |-> "Push", scope |-> scope]>>,
                   !.text = Append(@, text),
                   !.remaining_width = saturating_sub(@, n1 - n0)]

\* Prettifier::scope_push
scope_push(d, scope, text) ==
    LET d1 == maybe_newline(d)
        n0 == len(d1.text)
        n1 == n0 + Len(text)
    IN  [d1 EXCEPT !.ops = (@ \o <<[at |-> n0, op |-> "Push", scope |-> scope]>>)
                               \o <<[at |-> n1, op |-> "Pop", scope |-> ""]>>,
                   !.text = Append(@, text),
                   !.remaining_width = saturating_sub(@, n1 - n0)]

\* Prettifier::keyword
keyword(d, text) == scope_push(d, "KEYWORD_SCOPE", text)

\* A faulty noscope_push: the width of the text is not taken off
noscope_push_uncounted(d, text) ==
    LET d1 == maybe_newline(d)
    IN  [d1 EXCEPT !.text = Append(@, text)]

\* Prettifier::noscope_push
noscope_push(d, text) ==
    LET d1 == maybe_newline(d)
    IN  [d1 EXCEPT !.text = Append(@, text),
                   !.remaining_width = saturating_sub(@, Len(text))]

\* Prettifier::space
space(d) ==
    [d EXCEPT !.text = Append(@, " "),
              !.remaining_width = saturating_sub(@, 1)]

\* Prettifier::toplevel_separator
toplevel_separator(d) == newline_indent([d EXCEPT !.text = Append(@, "\n")])

\* A faulty insert: the offset is recorded before the pending newline is
\* flushed
insert_before_flush(d, ins, text_next) ==
    LET d1 == IF text_next THEN maybe_newline(d) ELSE d
    IN  [d1 EXCEPT !.inserts = Append(@, [at |-> len(d.text), ins |-> ins])]

\* Prettifier::insert
insert(d, ins, text_next) ==
    LET d1 == IF text_next THEN maybe_newline(d) ELSE d
    IN  [d1 EXCEPT !.inserts = Append(@, [at |-> len(d1.text), ins |-> ins])]

\* The inserts that handle_outer_inserts emits, outside of the styled spans
OuterInserts == {"XetexArrayMacroHackMarker", "XetexArrayMacroHackBracket"}

\* Prettifier::handle_outer_inserts, from the insert numbered insert_idx (from
\* 0) at the text offset i_text: the number of the insert it stops at and the
\* inserts it printed.  i_next_insert is the offset of the insert numbered
\* insert_idx, or usize::MAX behind the last one.  The marker is passed over
\* and prints nothing.
RECURSIVE handle_outer_inserts(_, _, _)
handle_outer_inserts(d, i_text, insert_idx) ==
    IF insert_idx < Len(d.inserts) /\ d.inserts[insert_idx + 1].at = i_text
    THEN LET ins == d.inserts[insert_idx + 1].ins
             r == handle_outer_inserts(d, i_text, insert_idx + 1)
         IN  IF ins = "XetexArrayMacroHackMarker" THEN r
             ELSE IF ins = "XetexArrayMacroHackBracket"
             THEN [insert_idx |-> r.insert_idx,
                   printed |-> <<[ins |-> ins, idx |-> insert_idx, at |-> i_text]>>
                                   \o r.printed]
             ELSE [insert_idx |-> insert_idx, printed |-> <<>>]
    ELSE [insert_idx |-> insert_idx, printed |-> <<>>]

\* Prettifier::handle_inserts: the inserts printed inside of a styled span; it
\* stops at an outer insert
RECURSIVE handle_inserts(_, _, _)
handle_inserts(d, i_text, insert_idx) ==
    IF insert_idx < Len(d.inserts) /\ d.inserts[insert_idx + 1].at = i_text
    THEN LET ins == d.inserts[insert_idx + 1].ins
             r == handle_inserts(d, i_text, insert_idx + 1)
         IN  IF ins \in OuterInserts
             THEN [insert_idx |-> insert_idx, printed |-> <<>>]
             ELSE [insert_idx |-> r.insert_idx,
                   printed |-> <<[ins |-> ins, idx |-> insert_idx, at |-> i_text]>>
                                   \o r.printed]
    ELSE [insert_idx |-> insert_idx, printed |-> <<>>]

\* The offsets at which the spans of HighlightIterator start: the start of a
\* text that is not empty, and the offsets of the ops inside of the text (a
\* span ends where an op is recorded; an empty span is not yielded)
span_starts(d) ==
    IF len(d.text) = 0 THEN {}
    ELSE {0} \cup {d.ops[i].at : i \in {j \in DOMAIN d.ops :
                                           /\ d.ops[j].at > 0
                                           /\ d.ops[j].at < len(d.text)}}

\* The loops of emit over the spans and over the characters of each span,
\* from the offset i_text on.  Between two offsets that start or end a span or
\* hold an insert, handle_inserts finds nothing to do, and the loop is followed
\* from one such offset to the next.
RECURSIVE emit_spans(_, _, _)
emit_spans(d, i_text, insert_idx) ==
    LET n == len(d.text)
        starts == span_starts(d)
        \* after the last character of a span
        e == IF i_text > 0 /\ (i_text = n \/ i_text \in starts)
             THEN handle_inserts(d, i_text, insert_idx)
             ELSE [insert_idx |-> insert_idx, printed |-> <<>>]
        \* before a span
        o == IF i_text < n /\ i_text \in starts
             THEN handle_outer_inserts(d, i_text, e.insert_idx)
             ELSE [insert_idx |-> e.insert_idx, printed |-> <<>>]
        \* before a character
        c == IF i_text < n
             THEN handle_inserts(d, i_text, o.insert_idx)
             ELSE [insert_idx |-> o.insert_idx, printed |-> <<>>]
        stops == (starts \cup {n}
                      \cup {d.inserts[i].at : i \in DOMAIN d.inserts})
                     \cap ((i_text + 1)..n)
        next == CHOOSE q \in stops : \A q2 \in stops : q <= q2
    IN  IF i_text >= n
        THEN [insert_idx |-> c.insert_idx, i_text |-> n,
              printed |-> (e.printed \o o.printed) \o c.printed]
        ELSE LET r == emit_spans(d, next, c.insert_idx)
             IN  [insert_idx |-> r.insert_idx, i_text |-> r.i_text,
                  printed |-> ((e.printed \o o.printed) \o c.printed) \o r.printed]

\* Prettifier::emit: the environment it opens and the inserts it prints, each
\* with its number and the offset of the text printed before it; the styles
\* and the escaped characters of the text are left out
emit(d, inline) ==
    LET xetex_array_macro_hack ==
            d.inserts # <<>> /\ d.inserts[1].ins = "XetexArrayMacroHackMarker"
        env == IF xetex_array_macro_hack THEN "WebBeginXetexArrayMacro"
               ELSE IF inline THEN "WebPrettifiedInline" ELSE "WebPrettifiedDisplay"
        top == IF xetex_array_macro_hack
               THEN <<[ins |-> "XetexArrayMacroHackMarker", idx |-> 0, at |-> 0]>>
               ELSE <<>>
        s == emit_spans(d, 0, IF xetex_array_macro_hack THEN 1 ELSE 0)
        f == handle_outer_inserts(d, s.i_text, s.insert_idx)
    IN  [env |-> env, printed |-> (top \o s.printed) \o f.printed,
         insert_idx |-> f.insert_idx]

\* Prettifier::with_scope: the Push recorded before func runs, and the Pop
\* recorded after it
with_scope_begin(d, scope) ==
    [d EXCEPT !.ops = Append(@, [at |-> len(d.text), op |-> "Push", scope |-> scope])]

with_scope_end(d) ==
    [d EXCEPT !.ops = Append(@, [at |-> len(d.text), op |-> "Pop", scope |-> ""])]

NOT_INLINE == 9999

\* base.rs, PascalToken: the text a token is rendered as
TokenText(tok) ==
    CASE tok.k \in {"Identifier", "IntLiteral", "StringLiteral", "ReservedWord",
                    "FormattedIdentifier", "ModuleReference", "Comment"} -> tok.v
      [] tok.k = "OpenDelimiter" -> IF tok.v = "Paren" THEN "(" ELSE "["
      [] tok.k = "CloseDelimiter" -> IF tok.v = "Paren" THEN ")" ELSE "]"
      [] tok.k = "Plus" -> "+"
      [] tok.k = "Minus" -> "-"
      [] tok.k = "Times" -> "*"
      [] tok.k = "Equals" -> "="
      [] tok.k = "Gets" -> ":="
      [] tok.k = "Comma" -> ","
      [] tok.k = "Semicolon" -> ";"
      [] tok.k = "Colon" -> ":"
      [] tok.k = "DoubleDot" -> ".."
      [] tok.k = "Period" -> "."
      [] tok.k = "Caret" -> "^"
      [] OTHER -> "@"

\* The RenderInline trait: measure_inline(impl, x) and render_inline(impl, x, d)
\* are the methods of the item x of the type named by impl
RECURSIVE measure_inline(_, _)
RECURSIVE render_inline(_, _, _)

\* base.rs, RenderInline for PascalToken: the width of the token's text, and
\* the push of that text (a reserved word as a keyword)
PascalToken_measure_inline(tok) == Len(TokenText(tok))

PascalToken_render_inline(tok, d) ==
    IF tok.k = "ReservedWord" THEN keyword(d, TokenText(tok))
    ELSE noscope_push(d, TokenText(tok))

\* expr.rs, WebExpr::measure_inline
WebExpr_measure_inline(e) ==
    CASE e.t = "Token" -> measure_inline("PascalToken", e.tok)
      [] e.t = "Binary" ->
            measure_inline("WebExpr", e.lhs) + measure_inline("WebExpr", e.rhs)
                + measure_inline("PascalToken", e.op) + 2
      [] OTHER -> 999

\* expr.rs, WebExpr::render_inline
WebExpr_render_inline(e, d) ==
    CASE e.t = "Token" -> render_inline("PascalToken", e.tok, d)
      [] e.t = "Binary" ->
            LET d1 == render_inline("WebExpr", e.lhs, d)
                d2 == space(d1)
                d3 == render_inline("PascalToken", e.op, d2)
                d4 == space(d3)
            IN  render_inline("WebExpr", e.rhs, d4)
      [] OTHER -> d

\* expr.rs, WebExpr::render_flex
RECURSIVE WebExpr_render_flex(_, _)
WebExpr_render_flex(e, d) ==
    CASE e.t = "Token" -> render_inline("PascalToken", e.tok, d)
      [] e.t = "PrefixUnary" ->
            WebExpr_render_flex(e.inner, render_inline("PascalToken", e.op, d))
      [] e.t = "Binary" ->
            LET wl == measure_inline("WebExpr", e.lhs)
                wr == measure_inline("WebExpr", e.rhs)
                wo == measure_inline("PascalToken", e.op)
            IN  IF fits(d, wl + wr + wo + 2)
                THEN LET d1 == render_inline("WebExpr", e.lhs, d)
                         d2 == space(d1)
                         d3 == render_inline("PascalToken", e.op, d2)
                         d4 == space(d3)
                     IN  render_inline("WebExpr", e.rhs, d4)
                ELSE LET d1 == indent_block(d)
                         d2 == newline_indent(d1)
                         d3 == WebExpr_render_flex(e.lhs, d2)
                         d4 == newline_indent(d3)
                         d5 == render_inline("PascalToken", e.op, d4)
                         d6 == space(d5)
                         d7 == WebExpr_render_flex(e.rhs, d6)
                         d8 == dedent_block(d7)
                     IN  newline_needed(d8)
      [] OTHER -> d

RECURSIVE measure_inline_seq(_, _, _)
RECURSIVE render_inline_seq(_, _, _, _)

\* weblang.rs, RenderInline for SpecialListLiteralTerm
SpecialListLiteralTerm_measure_inline(x) ==
    CASE x.t = "Single" -> measure_inline("PascalToken", x.tok)
      [] x.t = "Range" ->
            measure_inline("PascalToken", x.lo) + 4 + measure_inline("PascalToken", x.hi)
      [] x.t = "Unary" ->
            measure_inline("PascalToken", x.op) + measure_inline("PascalToken", x.tok)

SpecialListLiteralTerm_render_inline(x, d) ==
    CASE x.t = "Single" -> render_inline("PascalToken", x.tok, d)
      [] x.t = "Range" ->
            LET d1 == render_inline("PascalToken", x.lo, d)
                d2 == noscope_push(d1, " .. ")
            IN  render_inline("PascalToken", x.hi, d2)
      [] x.t = "Unary" ->
            render_inline("PascalToken", x.tok, render_inline("PascalToken", x.op, d))

\* webtype.rs, RenderInline for RangeBound
RangeBound_measure_inline(b) ==
    CASE b.t = "Literal" -> measure_inline("PascalToken", b.tok)
      [] b.t = "Symbolic1" -> Len(b.name.v)
      [] b.t = "Symbolic2" ->
            Len(b.name.v) + measure_inline("PascalToken", b.op)
                + measure_inline("PascalToken", b.lit) + 4
      [] b.t = "UnarySymbolic" ->
            measure_inline("PascalToken", b.op) + Len(b.name.v)

RangeBound_render_inline(b, d) ==
    CASE b.t = "Literal" -> render_inline("PascalToken", b.tok, d)
      [] b.t = "Symbolic1" -> noscope_push(d, b.name.v)
      [] b.t = "Symbolic2" ->
            LET d1 == noscope_push(d, "(")
                d2 == noscope_push(d1, b.name.v)
                d3 == space(d2)
                d4 == render_inline("PascalToken", b.op, d3)
                d5 == space(d4)
                d6 == render_inline("PascalToken", b.lit, d5)
            IN  noscope_push(d6, ")")
      [] b.t = "UnarySymbolic" ->
            noscope_push(render_inline("PascalToken", b.op, d), b.name.v)

\* webtype.rs, RenderInline for WebArrayType
WebArrayType_measure_inline(arr) ==
    (IF arr.is_packed THEN 7 ELSE 0) + 7
        + measure_inline_seq("WebType", arr.axes, 2) + 5
        + measure_inline("WebType", arr.element)

WebArrayType_render_inline(arr, d) ==
    LET d1 == IF arr.is_packed THEN noscope_push(d, "packed ") ELSE d
        d2 == noscope_push(d1, "array [")
        d3 == render_inline_seq("WebType", arr.axes, ", ", d2)
        d4 == noscope_push(d3, "] of ")
    IN  render_inline("WebType", arr.element, d4)

\* webtype.rs, RenderInline for WebType
WebType_measure_inline(ty) ==
    CASE ty.t = "Integer" -> 7
      [] ty.t = "Real" -> 4
      [] ty.t = "Boolean" -> 7
      [] ty.t = "Range" ->
            measure_inline("RangeBound", ty.lo) + measure_inline("RangeBound", ty.hi) + 4
      [] ty.t = "PackedFileOf" -> 15 + Len(ty.name.v)
      [] ty.t = "Array" -> WebArrayType_measure_inline(ty)
      [] ty.t = "Record" -> NOT_INLINE
      [] ty.t = "Pointer" -> 1 + measure_inline("WebType", ty.ty)
      [] ty.t = "UserDefined" -> Len(ty.name.v)

WebType_render_inline(ty, d) ==
    CASE ty.t = "Integer" -> noscope_push(d, "integer")
      [] ty.t = "Real" -> noscope_push(d, "real")
      [] ty.t = "Boolean" -> noscope_push(d, "boolean")
      [] ty.t = "Range" ->
            LET d1 == render_inline("RangeBound", ty.lo, d)
                d2 == noscope_push(d1, " .. ")
            IN  render_inline("RangeBound", ty.hi, d2)
      [] ty.t = "PackedFileOf" ->
            noscope_push(noscope_push(d, "packed file of "), ty.name.v)
      [] ty.t = "Array" -> WebArrayType_render_inline(ty, d)
      [] ty.t = "Record" -> noscope_push(d, "XXXrecordXXX")
      [] ty.t = "Pointer" -> render_inline("WebType", ty.ty, noscope_push(d, "^"))
      [] ty.t = "UserDefined" -> noscope_push(d, ty.name.v)

measure_inline(impl, x) ==
    CASE impl = "WebExpr" -> WebExpr_measure_inline(x)
      [] impl = "WebType" -> WebType_measure_inline(x)
      [] impl = "RangeBound" -> RangeBound_measure_inline(x)
      [] impl = "PascalToken" -> PascalToken_measure_inline(x)
      [] impl = "SpecialListLiteralTerm" -> SpecialListLiteralTerm_measure_inline(x)

render_inline(impl, x, d) ==
    CASE impl = "WebExpr" -> WebExpr_render_inline(x, d)
      [] impl = "WebType" -> WebType_render_inline(x, d)
      [] impl = "RangeBound" -> RangeBound_render_inline(x, d)
      [] impl = "PascalToken" -> PascalToken_render_inline(x, d)
      [] impl = "SpecialListLiteralTerm" -> SpecialListLiteralTerm_render_inline(x, d)

\* A faulty measure_inline_seq: the separators are not counted
RECURSIVE measure_inline_seq_nosep(_, _, _)
measure_inline_seq_nosep(impl, seq, sep_width) ==
    IF Len(seq) = 0 THEN 0
    ELSE measure_inline_seq_nosep(impl, SubSeq(seq, 1, Len(seq) - 1), sep_width)
            + measure_inline(impl, seq[Len(seq)])

\* prettify::measure_inline_seq, the loop unrolled from the last item: n is the
\* width of the items before it
measure_inline_seq(impl, seq, sep_width) ==
    IF Len(seq) = 0 THEN 0
    ELSE LET n == measure_inline_seq(impl, SubSeq(seq, 1, Len(seq) - 1), sep_width)
         IN  (IF n # 0 THEN n + sep_width ELSE n) + measure_inline(impl, seq[Len(seq)])

\* prettify::render_inline_seq
render_inline_seq(impl, seq, sep, d) ==
    IF Len(seq) = 0 THEN d
    ELSE IF Len(seq) = 1 THEN render_inline(impl, seq[1], d)
    ELSE LET d1 == render_inline_seq(impl, SubSeq(seq, 1, Len(seq) - 1), sep, d)
         IN  render_inline(impl, seq[Len(seq)], noscope_push(d1, sep))

\* base.rs, RenderInline for WebComment: the comment's text, in the comment scope
WebComment_measure_inline(c) == Len(c.v)

WebComment_render_inline(c, d) == scope_push(d, "COMMENT_SCOPE", c.v)

(***************************************************************************)
(* weblang/webtype.rs: the layout rendering of types.                      *)
(***************************************************************************)
RECURSIVE WebType_render_flex(_, _)
RECURSIVE array_axes_flex(_, _)
RECURSIVE record_fields_flex(_, _)

\* WebArrayType::render_flex, third strategy, the loop over the axes
array_axes_flex(axes, d) ==
    IF axes = <<>> THEN d
    ELSE LET d1 == newline_indent(d)
             d2 == WebType_render_flex(Head(axes), d1)
         IN  array_axes_flex(Tail(axes), noscope_push(d2, ","))

\* A faulty WebArrayType::render_flex: the element always goes on a new line
WebArrayType_render_flex_broken(arr, d) ==
    LET d1 == IF arr.is_packed THEN noscope_push(d, "packed ") ELSE d
        d2 == noscope_push(d1, "array [")
        d3 == render_inline_seq("WebType", arr.axes, ", ", d2)
        d4 == noscope_push(d3, "] of")
        d5 == newline_needed(indent_small(d4))
    IN  dedent_small(WebType_render_flex(arr.element, d5))

\* WebArrayType::render_flex
WebArrayType_render_flex(arr, d) ==
    LET wx == measure_inline_seq("WebType", arr.axes, 2)
        we == measure_inline("WebType", arr.element)
        d1 == IF arr.is_packed THEN noscope_push(d, "packed ") ELSE d
        d2 == noscope_push(d1, "array [")
    IN  IF fits(d2, wx + we + 5)
        THEN LET d3 == render_inline_seq("WebType", arr.axes, ", ", d2)
                 d4 == noscope_push(d3, "] of ")
             IN  render_inline("WebType", arr.element, d4)
        ELSE IF fits(d2, wx + 4)
        THEN LET d3 == render_inline_seq("WebType", arr.axes, ", ", d2)
                 d4 == noscope_push(d3, "] of")
                 d5 == newline_needed(indent_small(d4))
             IN  dedent_small(WebType_render_flex(arr.element, d5))
        ELSE LET d3 == array_axes_flex(arr.axes, indent_small(d2))
                 d4 == newline_indent(dedent_small(d3))
                 d5 == noscope_push(noscope_push(d4, "] of"), " ")
             IN  IF fits(d5, we)
                 THEN render_inline("WebType", arr.element, d5)
                 ELSE WebType_render_flex(arr.element, d5)

\* WebRecordType::render_flex, the body of the loop over the fields
record_field_flex(f, d) ==
    LET d0 == newline_needed(d)
        wc == IF f.comment # Nil THEN WebComment_measure_inline(f.comment) + 1 ELSE 0
        wn == measure_inline_seq("PascalToken", f.names, 2)
        wt == measure_inline("WebType", f.ty)
        \* the comment on a line of its own, before the field
        dc == IF f.comment # Nil
              THEN newline_needed(WebComment_render_inline(f.comment, d0))
              ELSE d0
    IN  IF fits(d0, wn + wt + wc + 3)
        THEN LET d1 == render_inline_seq("PascalToken", f.names, ", ", d0)
                 d2 == render_inline("WebType", f.ty, noscope_push(d1, ": "))
                 d3 == noscope_push(d2, ",")
             IN  IF f.comment # Nil
                 THEN WebComment_render_inline(f.comment, space(d3))
                 ELSE d3
        ELSE IF fits(d0, wn + wt + 3)
        THEN LET d1 == render_inline_seq("PascalToken", f.names, ", ", dc)
                 d2 == render_inline("WebType", f.ty, noscope_push(d1, ": "))
             IN  noscope_push(d2, ",")
        ELSE LET d1 == render_inline_seq("PascalToken", f.names, ", ", dc)
                 d2 == WebType_render_flex(f.ty, noscope_push(d1, ": "))
             IN  noscope_push(d2, ",")

record_fields_flex(fields, d) ==
    IF fields = <<>> THEN d
    ELSE record_fields_flex(Tail(fields), record_field_flex(Head(fields), d))

\* WebRecordType::render_flex
WebRecordType_render_flex(rec, d) ==
    LET d1 == IF rec.is_packed THEN noscope_push(d, "packed ") ELSE d
        d2 == indent_block(noscope_push(d1, "record {"))
        d3 == record_fields_flex(rec.fields, d2)
    IN  noscope_push(newline_indent(dedent_block(d3)), "}")

\* WebType::render_flex
WebType_render_flex(ty, d) ==
    CASE ty.t \in {"Integer", "Real", "Boolean", "UserDefined", "PackedFileOf",
                   "Pointer", "Range"} -> render_inline("WebType", ty, d)
      [] ty.t = "Array" -> WebArrayType_render_flex(ty, d)
      [] ty.t = "Record" -> WebRecordType_render_flex(ty, d)

\* label_declaration.rs, WebLabelDeclaration::prettify
label_declaration_prettify(ld, d) ==
    LET clen == IF ld.comment # Nil THEN WebComment_measure_inline(ld.comment) ELSE 0
        slen == Len(ld.name.v) + 7
    IN  IF fits(d, clen + slen + 1)
        THEN LET d1 == keyword(d, "label")
                 d2 == space(d1)
                 d3 == noscope_push(d2, ld.name.v)
                 d4 == noscope_push(d3, ";")
                 d5 == IF ld.comment # Nil
                       THEN WebComment_render_inline(ld.comment, space(d4))
                       ELSE d4
             IN  newline_needed(d5)
        ELSE LET d0 == IF ld.comment # Nil
                       THEN newline_indent(WebComment_render_inline(ld.comment, d))
                       ELSE d
                 d1 == keyword(d0, "label")
                 d2 == space(d1)
                 d3 == noscope_push(d2, ld.name.v)
                 d4 == noscope_push(d3, ";")
             IN  newline_needed(d4)

\* weblang.rs, tl_prettify
special_paren_two_ident(id1, id2, d) ==
    LET d1 == noscope_push(d, "(")
        d2 == noscope_push(d1, id1.v)
        d3 == noscope_push(d2, id2.v)
    IN  noscope_push(d3, ")")

special_empty_brackets(d) == noscope_push(d, "[]")

special_relational_expr(op, expr, d) ==
    render_inline("WebExpr", expr, render_inline("PascalToken", op, d))

special_range(e1, e2, d) ==
    LET d1 == render_inline("WebExpr", e1, d)
        d2 == noscope_push(d1, " .. ")
    IN  render_inline("WebExpr", e2, d2)

special_int_list(is_square, vals, d) ==
    LET d1 == noscope_push(d, IF is_square THEN "[" ELSE "(")
        d2 == render_inline_seq("SpecialListLiteralTerm", vals, ", ", d1)
    IN  noscope_push(d2, IF is_square THEN "]" ELSE ")")

special_list_literal_assignment(lhs, rhs, d) ==
    LET d1 == noscope_push(d, "(")
        d2 == render_inline_seq("SpecialListLiteralTerm", lhs, ", ", d1)
        d3 == noscope_push(d2, ") = (")
        d4 == render_inline_seq("SpecialListLiteralTerm", rhs, ", ", d3)
    IN  noscope_push(d4, ")")

special_ident_in_int_list(id, vals, d) ==
    LET d1 == noscope_push(d, id.v)
        d2 == space(d1)
        d3 == keyword(d2, "in")
        d4 == space(d3)
        d5 == noscope_push(d4, "[")
        d6 == render_inline_seq("SpecialListLiteralTerm", vals, ", ", d5)
    IN  noscope_push(d6, "]")

special_inline_define(lhs, rhs, d) ==
    LET d1 == render_inline("WebExpr", lhs, d)
        d2 == noscope_push(d1, " => ")
    IN  render_inline("WebExpr", rhs, d2)

\* the loop of special_comma_exprs over exprs[i..]
RECURSIVE comma_exprs_flex(_, _, _)
comma_exprs_flex(exprs, i, d) ==
    IF i > Len(exprs) THEN d
    ELSE LET d1 == IF i = 1 THEN d ELSE noscope_push(d, ",")
             d2 == newline_needed(d1)
         IN  comma_exprs_flex(exprs, i + 1, WebExpr_render_flex(exprs[i], d2))

special_comma_exprs(exprs, trailing_comma, d) ==
    IF fits(d, measure_inline_seq("WebExpr", exprs, 2))
    THEN render_inline_seq("WebExpr", exprs, ", ", d)
    ELSE LET d1 == comma_exprs_flex(exprs, 1, d)
         IN  IF trailing_comma THEN noscope_push(d1, ",") ELSE d1

special_array_macro(e1, e2, id, d) ==
    LET d1 == insert(d, "XetexArrayMacroHackMarker", FALSE)
        d2 == render_inline("WebExpr", e1, d1)
        d3 == noscope_push(d2, " .. ")
        d4 == render_inline("WebExpr", e2, d3)
        d5 == insert(d4, "XetexArrayMacroHackBracket", FALSE)
    IN  scope_push(d5, "KEYWORD_SCOPE", id.v)

special_float_equality(id, frac, d) ==
    LET d1 == noscope_push(d, id.v)
        d2 == noscope_push(d1, " = 0.")
    IN  render_inline("PascalToken", frac, d2)

special_coeff_array(name, coeff, base, d) ==
    LET d1 == noscope_push(d, name.v)
        d2 == noscope_push(d1, "[")
        d3 == render_inline("PascalToken", coeff, d2)
        d4 == render_inline("PascalToken", base, d3)
    IN  noscope_push(d4, "]")

special_expr_period(expr, d) ==
    noscope_push(render_inline("WebExpr", expr, d), ".")

\* The toplevels whose prettify is modelled
Prettified ==
    {"LabelDeclaration", "Empty", "SpecialParenTwoIdent", "SpecialEmptyBrackets",
     "SpecialRelationalExpr", "SpecialRange", "SpecialIdentInListLiteral",
     "SpecialListLiteral", "SpecialListLiteralAssignment", "SpecialInlineDefine",
     "SpecialCommaExprs", "SpecialArrayMacro", "SpecialFloatEquality",
     "SpecialCoeffArray", "SpecialImbalancedEnd", "SpecialExprPeriod"}

\* weblang.rs, WebToplevel::prettify
prettify(tl, d) ==
    CASE tl.t = "LabelDeclaration" -> label_declaration_prettify(tl, d)
      [] tl.t = "Empty" -> scope_push(d, "COMMENT_SCOPE", "/*nothing*/")
      [] tl.t = "SpecialParenTwoIdent" -> special_paren_two_ident(tl.id1, tl.id2, d)
      [] tl.t = "SpecialEmptyBrackets" -> special_empty_brackets(d)
      [] tl.t = "SpecialRelationalExpr" -> special_relational_expr(tl.op, tl.e, d)
      [] tl.t = "SpecialRange" -> special_range(tl.e1, tl.e2, d)
      [] tl.t = "SpecialIdentInListLiteral" -> special_ident_in_int_list(tl.id, tl.terms, d)
      [] tl.t = "SpecialListLiteral" -> special_int_list(tl.is_square, tl.terms, d)
      [] tl.t = "SpecialListLiteralAssignment" ->
            special_list_literal_assignment(tl.lhs, tl.rhs, d)
      [] tl.t = "SpecialInlineDefine" -> special_inline_define(tl.lhs, tl.rhs, d)
      [] tl.t = "SpecialCommaExprs" -> special_comma_exprs(tl.exprs, tl.trailing_comma, d)
      [] tl.t = "SpecialArrayMacro" -> special_array_macro(tl.e1, tl.e2, tl.id, d)
      [] tl.t = "SpecialFloatEquality" -> special_float_equality(tl.id, tl.frac, d)
      [] tl.t = "SpecialCoeffArray" -> special_coeff_array(tl.name, tl.coeff, tl.base, d)
      [] tl.t = "SpecialImbalancedEnd" -> d
      [] tl.t = "SpecialExprPeriod" -> special_expr_period(tl.e, d)

(***************************************************************************)
(* Bounded inputs.                                                         *)
(***************************************************************************)
RECURSIVE SeqsUpTo(_, _)
SeqsUpTo(S, n) ==
    IF n = 0 THEN {<<>>}
    ELSE LET shorter == SeqsUpTo(S, n - 1)
         IN  shorter \cup {Append(s, x) : s \in {q \in shorter : Len(q) = n - 1}, x \in S}

\* Bounds of the expression inputs: every token sequence over ExprAlphabet of
\* at most MaxExprLen tokens, and every operator chain of at most MaxChain atoms
MaxExprLen == 3
MaxChain == 4

ExprAlphabet ==
    {Ident("a"), IntLit("1"), P("Plus"), P("Minus"), P("Times"), RW("not"),
     P("Caret"), P("Comma"), P("Period"), P("Colon"), P("DoubleDot"),
     Open("Paren"), Close("Paren"), Open("SquareBracket"), Close("SquareBracket")}

ChainAtoms == {Ident("a"), Ident("b"), IntLit("1")}
ChainOps == {P("Plus"), P("Times"), P("Minus"), P("Equals"), RW("and")}

\* a1 op1 a2 ... an with n atoms
RECURSIVE Chains(_)
Chains(n) ==
    IF n = 1 THEN {<<a>> : a \in ChainAtoms}
    ELSE {<<a, o>> \o c : a \in ChainAtoms, o \in ChainOps, c \in Chains(n - 1)}

\* `a ( 1 ) [ 1 ] . a + 1`: an assignment target of a call, an index and a
\* field tail, followed by a binary tail
LhsScenario ==
    <<Ident("a"), Open("Paren"), IntLit("1"), Close("Paren"), Open("SquareBracket"),
      IntLit("1"), Close("SquareBracket"), P("Period"), Ident("a"), P("Plus"),
      IntLit("1")>>

\* Longer expressions: tails after tails, tails that do not close, operators
\* inside the arguments of a tail, and heads that are not atoms
ExprScenarios ==
    {LhsScenario,
     <<Ident("a"), P("Period"), Ident("a"), P("Period"), Ident("a"), P("Caret")>>,
     <<Ident("a"), Open("Paren"), P("Minus"), Ident("a"), P("Plus"), IntLit("1"),
       Close("Paren"), P("Colon"), IntLit("1")>>,
     <<Ident("a"), Open("SquareBracket"), Open("Paren"), Ident("a"), Close("Paren"),
       Close("SquareBracket"), P("Gets"), IntLit("1")>>,
     <<Ident("a"), Open("Paren"), Close("Paren"), Open("Paren"), P("Plus")>>,
     <<Ident("a"), Open("Paren"), IntLit("1"), Close("Paren"), P("Period"), IntLit("1")>>,
     <<P("Minus"), Ident("a"), P("Plus"), Ident("b"), P("Times"), IntLit("1")>>,
     <<Open("Paren"), Ident("a"), P("Plus"), Ident("b"), Close("Paren"), P("Times"),
       RW("not"), Ident("a"), P("Plus"), IntLit("1")>>,
     <<Ident("a"), P("Caret"), P("Plus"), P("Minus"), Ident("a"), P("Period"),
       Ident("b"), P("Times"), Ident("a")>>}

ExprInputs ==
    SeqsUpTo(ExprAlphabet, MaxExprLen) \cup UNION {Chains(n) : n \in 1..MaxChain}
        \cup ExprScenarios

\* Bound of the toplevel inputs: every token sequence over CodeAlphabet of at
\* most MaxCodeLen tokens, and the longer sequences of CodeScenarios
MaxCodeLen == 3

CodeAlphabet ==
    {Ident("a"), IntLit("1"), P("Equals"), P("Semicolon"), P("Gets"), P("Plus"),
     P("Comma"), P("Formatting"), Tok("ModuleReference", "m"), RW("const"),
     Open("Paren"), Close("Paren")}

\* The scenarios of the specification: `x := y + 1 ;` and `const foo = 42 ;`
AssignmentScenario ==
    <<Ident("x"), P("Gets"), Ident("y"), P("Plus"), IntLit("1"), P("Semicolon")>>

ConstScenario ==
    <<RW("const"), Ident("foo"), P("Equals"), IntLit("42"), P("Semicolon")>>

\* `a [ 1 ] := - ( a + a ( 1 ) ) ;`: parse_expr recurses from an index term,
\* a prefix-unary head, a parenthesized head, a binary tail and a call argument
RecursionScenario ==
    <<Ident("a"), Open("SquareBracket"), IntLit("1"), Close("SquareBracket"),
      P("Gets"), P("Minus"), Open("Paren"), Ident("a"), P("Plus"), Ident("a"),
      Open("Paren"), IntLit("1"), Close("Paren"), Close("Paren"), P("Semicolon")>>

\* `( a , a ) := ( 1 , 1 )`: a list assignment that is the whole input
ListAssignmentScenario ==
    <<Open("Paren"), Ident("a"), P("Comma"), Ident("a"), Close("Paren"), P("Gets"),
      Open("Paren"), IntLit("1"), P("Comma"), IntLit("1"), Close("Paren")>>

\* `( a ) := ( 1 ) ;`: lists of one term, with a token after the form
ListAssignmentSingle ==
    <<Open("Paren"), Ident("a"), Close("Paren"), P("Gets"),
      Open("Paren"), IntLit("1"), Close("Paren"), P("Semicolon")>>

\* `( 1 .. 2 , - a ) := ( a , 1 , 1 ) a`: a range and a negated identifier as
\* terms, lists of different lengths, after a formatting token
ListAssignmentTerms ==
    <<P("Formatting"), Open("Paren"), IntLit("1"), P("DoubleDot"), IntLit("2"),
      P("Comma"), P("Minus"), Ident("a"), Close("Paren"), P("Gets"),
      Open("Paren"), Ident("a"), P("Comma"), IntLit("1"), P("Comma"), IntLit("1"),
      Close("Paren"), Ident("a")>>

\* The two forms of a token that opens a block and of one that closes it: the
\* reserved word, and a formatted identifier that behaves like it
BlockOpeners == {RW("begin"), FmtLike("Begin")}
BlockClosers == {RW("end"), FmtLike("End")}

\* `begin a ; end`, with either form of each delimiter
BlockScenario(o, c) == <<o, Ident("a"), P("Semicolon"), c>>

\* `case a of 1 : a ; endcases`, with either form of the terminator
CaseScenario(c) ==
    <<RW("case"), Ident("a"), RW("of"), IntLit("1"), P("Colon"), Ident("a"),
      P("Semicolon"), c>>

\* `init a : integer ; tini`, with either form of each delimiter
IfdefVarScenario(o, c) ==
    <<o, Ident("a"), P("Colon"), Ident("integer"), P("Semicolon"), c>>

\* `case a of <m> ; 1 , a : a ; others : a ; endcases ;`: a module reference,
\* a standard arm of two labels and an other-cases arm
CaseItemsScenario ==
    <<RW("case"), Ident("a"), RW("of"), Tok("ModuleReference", "m"), P("Semicolon"),
      IntLit("1"), P("Comma"), Ident("a"), P("Colon"), Ident("a"), P("Semicolon"),
      FmtLike("Else"), Ident("a"), P("Semicolon"), FmtLike("End"), P("Semicolon")>>

\* Case statements without their terminator: closed by the reserved word end,
\* by the end of the input, and without any item
UnterminatedCases ==
    {CaseScenario(RW("end")),
     <<RW("case"), Ident("a"), RW("of"), IntLit("1"), P("Colon"), Ident("a"),
       P("Semicolon")>>,
     <<RW("case"), Ident("a"), RW("of"), FmtLike("End")>>}

CaseScenarios == {CaseItemsScenario} \cup UnterminatedCases

DelimiterScenarios ==
    {BlockScenario(o, c) : o \in BlockOpeners, c \in BlockClosers}
        \cup {CaseScenario(c) : c \in BlockClosers}
        \cup {IfdefVarScenario(o, c) : o \in BlockOpeners, c \in BlockClosers}

CodeScenarios ==
    {AssignmentScenario, ConstScenario, RecursionScenario,
     <<Ident("a"), P("Equals"), IntLit("1"), P("Semicolon")>>,
     <<RW("const"), Ident("a"), P("Equals"), IntLit("1"), P("Semicolon")>>,
     <<Ident("a"), P("Gets"), Ident("a"), P("Plus"), IntLit("1"), P("Semicolon")>>,
     <<Ident("a"), P("Gets"), IntLit("1"), P("Semicolon"), P("Formatting")>>,
     <<P("Formatting"), Ident("a"), P("Gets"), IntLit("1"), P("Semicolon")>>,
     ListAssignmentScenario, ListAssignmentSingle, ListAssignmentTerms,
     <<Ident("a"), P("Semicolon"), Ident("a"), P("Semicolon")>>}
        \cup DelimiterScenarios \cup CaseScenarios

CodeInputs == SeqsUpTo(CodeAlphabet, MaxCodeLen) \cup CodeScenarios

NoCall == [op |-> "none"]
None == [some |-> FALSE, code |-> <<>>]
Some(code) == [some |-> TRUE, code |-> code]

\* WebCode::parse as a function of the tokens: the toplevels of
\* many1(parse_toplevel) when nothing remains, and None otherwise
parse(tokens) ==
    IF Len(tokens) = 0 THEN Some(<<[t |-> "Empty"]>>)
    ELSE LET r == many1("parse_toplevel", tokens)
         IN  IF r.ok /\ Len(r.rest) = 0 THEN Some(r.val) ELSE None

(***************************************************************************)
(* SpecExpr: parse_expr applied to a bounded input.                        *)
(***************************************************************************)
InitExpr ==
    /\ syntax \in ExprInputs
    /\ input = <<>>
    /\ value = <<>>
    /\ pc = "start"
    /\ result = None
    /\ dest = new
    /\ last = NoCall
    /\ calls = 0

CallParseExpr ==
    /\ last = NoCall
    /\ last' = [op |-> "parse_expr", arg |-> syntax, ret |-> call("parse_expr", syntax)]
    /\ UNCHANGED <<syntax, input, value, pc, result, dest, calls>>

CallParseLhsExpr ==
    /\ last = NoCall
    /\ last' = [op |-> "parse_lhs_expr", arg |-> syntax,
                ret |-> call("parse_lhs_expr", syntax)]
    /\ UNCHANGED <<syntax, input, value, pc, result, dest, calls>>

NextExpr == CallParseExpr \/ CallParseLhsExpr

SpecExpr == InitExpr /\ [][NextExpr]_vars

(***************************************************************************)
(* SpecParse: WebCode::parse, one application of parse_toplevel by many1   *)
(* per step.                                                               *)
(***************************************************************************)
InitParse ==
    /\ syntax \in CodeInputs
    /\ input = syntax
    /\ value = <<>>
    /\ pc = "start"
    /\ result = None
    /\ dest = new
    /\ last = NoCall
    /\ calls = 0

\* A faulty ParseEmpty: the empty input is a parse failure
ParseEmptyFails ==
    /\ pc = "start"
    /\ Len(input) = 0
    /\ result' = None
    /\ pc' = "done"
    /\ UNCHANGED <<syntax, input, value, dest, last, calls>>

\* input.input_len() == 0: return Some(WebCode(vec![WebToplevel::Empty]))
ParseEmpty ==
    /\ pc = "start"
    /\ Len(input) = 0
    /\ result' = Some(<<[t |-> "Empty"]>>)
    /\ pc' = "done"
    /\ UNCHANGED <<syntax, input, value, dest, last, calls>>

\* many1, first application, with r the result of parse_toplevel: on success
\* the item is collected; on failure many1 fails and parse returns None
many1_first(r) ==
    /\ last' = [op |-> "parse_toplevel", arg |-> input, ret |-> r]
    /\ IF r.ok
       THEN /\ input' = r.rest
            /\ value' = <<r.val>>
            /\ pc' = "many1"
            /\ UNCHANGED result
       ELSE /\ result' = None
            /\ pc' = "done"
            /\ UNCHANGED <<input, value>>

ParseFirst ==
    /\ pc = "start"
    /\ Len(input) > 0
    /\ many1_first(call("parse_toplevel", input))
    /\ UNCHANGED <<syntax, dest, calls>>

\* A faulty many1_more: it returns the collected toplevels whatever remains
many1_more_partial(r) ==
    /\ last' = [op |-> "parse_toplevel", arg |-> input, ret |-> r]
    /\ IF r.ok /\ Len(r.rest) # Len(input)
       THEN /\ input' = r.rest
            /\ value' = Append(value, r.val)
            /\ UNCHANGED <<pc, result>>
       ELSE /\ result' = Some(value)
            /\ pc' = "done"
            /\ UNCHANGED <<input, value>>

\* many1, a further application, with r its result: a success that consumed
\* something is collected; a success that consumed nothing is an error of many1
\* (parse returns None); a failure ends many1 with Ok((input, value)), and parse
\* returns None for a remainder and Some(WebCode(value)) for none
many1_more(r) ==
    /\ last' = [op |-> "parse_toplevel", arg |-> input, ret |-> r]
    /\ IF r.ok /\ Len(r.rest) # Len(input)
       THEN /\ input' = r.rest
            /\ value' = Append(value, r.val)
            /\ UNCHANGED <<pc, result>>
       ELSE /\ result' = IF r.ok THEN None
                         ELSE IF Len(input) > 0 THEN None ELSE Some(value)
            /\ pc' = "done"
            /\ UNCHANGED <<input, value>>

ParseMore ==
    /\ pc = "many1"
    /\ many1_more(call("parse_toplevel", input))
    /\ UNCHANGED <<syntax, dest, calls>>

NextParse == ParseEmpty \/ ParseFirst \/ ParseMore

SpecParse == InitParse /\ [][NextParse]_vars

(***************************************************************************)
(* SpecIndent: indent_block, dedent_block, indent_small and dedent_small   *)
(* called in any order on a new Prettifier.                                *)
(***************************************************************************)
InitIndent ==
    /\ syntax = <<>>
    /\ input = <<>>
    /\ value = <<>>
    /\ pc = "indent"
    /\ result = None
    /\ dest = new
    /\ last = NoCall
    /\ calls = 0

\* Each indent call returns true exactly when it took the branch that changes
\* indent: ret is whether the Prettifier was changed.
IndentBlock ==
    /\ dest' = indent_block(dest)
    /\ last' = [op |-> "indent_block", before |-> dest, ret |-> (indent_block(dest) # dest)]
    /\ UNCHANGED <<syntax, input, value, pc, result, calls>>

DedentBlock ==
    /\ dest' = dedent_block(dest)
    /\ last' = [op |-> "dedent_block", before |-> dest, ret |-> (dedent_block(dest) # dest)]
    /\ UNCHANGED <<syntax, input, value, pc, result, calls>>

IndentSmall ==
    /\ dest' = indent_small(dest)
    /\ last' = [op |-> "indent_small", before |-> dest, ret |-> (indent_small(dest) # dest)]
    /\ UNCHANGED <<syntax, input, value, pc, result, calls>>

DedentSmall ==
    /\ dest' = dedent_small(dest)
    /\ last' = [op |-> "dedent_small", before |-> dest, ret |-> (dedent_small(dest) # dest)]
    /\ UNCHANGED <<syntax, input, value, pc, result, calls>>

NextIndent == IndentBlock \/ DedentBlock \/ IndentSmall \/ DedentSmall

SpecIndent == InitIndent /\ [][NextIndent]_vars

(***************************************************************************)
(* SpecRender: at most MaxCalls calls on a Prettifier: its own methods,    *)
(* and the rendering of parsed nodes into it.                              *)
(***************************************************************************)
MaxCalls == 2

\* an identifier of 30 characters
LongName == "xxxxxxxxxxxxxxxxxxxxxxxxxxxxxx"

RenderExprInputs ==
    {<<Ident("a")>>,
     <<Ident("a"), P("Plus"), Ident("b")>>,
     <<Ident("a"), P("Times"), Ident("b"), P("Plus"), IntLit("1")>>,
     <<Ident(LongName), P("Plus"), Ident("b")>>,
     <<Ident(LongName), P("Plus"), Ident(LongName)>>,
     <<RW("not"), Ident("a")>>,
     <<Ident("a"), P("Caret")>>,
     <<Ident("a"), Open("Paren"), Ident("b"), Close("Paren")>>,
     <<Ident("a"), Open("SquareBracket"), IntLit("1"), Close("SquareBracket")>>,
     <<Ident("a"), P("Period"), Ident("b")>>,
     <<Ident("a"), P("Colon"), IntLit("1")>>,
     <<Open("Paren"), Ident("a"), Close("Paren")>>,
     <<Ident("a"), Open("Paren"), Ident("b"), Close("Paren"), P("Plus"), Ident("b")>>}

RenderExprs == {call("parse_expr", s).val : s \in RenderExprInputs}

RenderTypeInputs ==
    {<<Ident("integer")>>, <<Ident("real")>>, <<Ident("boolean")>>, <<Ident("a")>>,
     <<IntLit("1"), P("DoubleDot"), IntLit("10")>>,
     <<Ident("a"), P("Plus"), IntLit("1"), P("DoubleDot"), P("Minus"), Ident("b")>>,
     <<RW("packed"), RW("file"), RW("of"), Ident("a")>>,
     <<P("Caret"), Ident("integer")>>,
     <<RW("array"), Open("SquareBracket"), IntLit("1"), P("DoubleDot"), IntLit("10"),
       Close("SquareBracket"), RW("of"), Ident("integer")>>,
     <<RW("packed"), RW("array"), Open("SquareBracket"), Ident("a"), P("Comma"),
       Ident("b"), Close("SquareBracket"), RW("of"), Ident("real")>>,
     <<RW("array"), Open("SquareBracket"), Ident(LongName), P("Comma"),
       Ident(LongName), Close("SquareBracket"), RW("of"), Ident("real")>>,
     <<RW("record"), Ident("a"), P("Colon"), Ident("integer"), P("Semicolon"),
       RW("end")>>,
     <<RW("array"), Open("SquareBracket"), Ident(LongName), Close("SquareBracket"),
       RW("of"), Ident(LongName)>>,
     <<RW("array"), Open("SquareBracket"), Ident("a"), Close("SquareBracket"),
       RW("of"), RW("record"), Ident("a"), P("Colon"), Ident("integer"),
       P("Semicolon"), RW("end")>>,
     <<RW("packed"), RW("record"), Ident("a"), P("Comma"), Ident("b"), P("Colon"),
       Ident("integer"), P("Semicolon"), Ident("c"), P("Colon"), Ident("real"),
       P("Semicolon"), RW("end")>>,
     <<RW("record"), Ident("a"), P("Colon"), Ident("integer"), P("Semicolon"),
       Tok("Comment", "note"), Ident("b"), P("Colon"), Ident(LongName),
       P("Semicolon"), Tok("Comment", LongName), RW("end")>>,
     <<RW("record"), Ident("a"), P("Colon"), RW("array"), Open("SquareBracket"),
       Ident(LongName), P("Comma"), Ident(LongName), Close("SquareBracket"),
       RW("of"), Ident("real"), P("Semicolon"), RW("end")>>}

RenderTypes == {call("parse_type", s).val : s \in RenderTypeInputs}

RenderToplevelInputs ==
    {<<RW("label"), Ident("a"), P("Semicolon")>>,
     <<RW("label"), Ident(LongName), P("Semicolon")>>,
     <<Open("Paren"), Ident("a"), Ident("b"), Close("Paren")>>,
     <<Open("Paren"), Ident(LongName), Ident(LongName), Close("Paren")>>,
     <<Open("SquareBracket"), Close("SquareBracket")>>,
     <<P("Equals"), Ident("a")>>,
     <<Ident("a"), P("DoubleDot"), Ident("b")>>,
     <<Ident("a"), RW("in"), Open("SquareBracket"), IntLit("1"), P("Comma"),
       IntLit("1"), P("DoubleDot"), IntLit("10"), Close("SquareBracket")>>,
     <<Open("Paren"), IntLit("1"), P("Comma"), P("Minus"), Ident("a"), Close("Paren")>>,
     <<Open("SquareBracket"), IntLit("1"), Close("SquareBracket")>>,
     <<Open("Paren"), Ident("a"), P("Comma"), Ident("a"), Close("Paren"), P("Gets"),
       Open("Paren"), IntLit("1"), P("Comma"), IntLit("1"), Close("Paren")>>,
     <<Ident("a"), P("Equivalence"), Ident("b")>>,
     <<Ident("a"), P("Comma"), Ident("b")>>,
     <<Ident("a"), P("Comma"), Ident("b"), P("Comma")>>,
     <<Ident(LongName), P("Comma"), Ident(LongName), P("Comma")>>,
     <<Ident("a"), Open("Paren"), Ident("b"), Close("Paren"), P("Comma"), Ident("b")>>,
     <<Open("SquareBracket"), Ident("a"), P("DoubleDot"), Ident("b"),
       Close("SquareBracket"), Ident("a")>>,
     <<Ident("a"), P("Equals"), P("Period"), IntLit("1")>>,
     <<Ident("a"), Open("SquareBracket"), IntLit("1"), Ident("b"),
       Close("SquareBracket")>>,
     <<RW("end"), P("Semicolon")>>,
     <<Ident("a"), P("Period")>>}

\* WebCode::parse of no tokens gives the toplevel Empty
RenderToplevels ==
    {call("parse_toplevel", s).val : s \in RenderToplevelInputs} \cup {[t |-> "Empty"]}

\* The sequences the parsed nodes hold: array axes, list terms, expressions
RenderSeqs ==
    {<<"WebType", ty.axes>> : ty \in {x \in RenderTypes : x.t = "Array"}}
    \cup {<<"SpecialListLiteralTerm", tl.terms>> :
            tl \in {x \in RenderToplevels : x.t = "SpecialListLiteral"}}
    \cup {<<"WebExpr", tl.exprs>> :
            tl \in {x \in RenderToplevels : x.t = "SpecialCommaExprs"}}
    \cup {<<"WebExpr", <<>>>>}

\* The items that implement RenderInline, each with the name of its type
RenderItems ==
    {<<"WebExpr", e>> : e \in RenderExprs}
    \cup {<<"WebType", ty>> : ty \in RenderTypes}
    \cup {<<"RangeBound", ty.lo>> : ty \in {x \in RenderTypes : x.t = "Range"}}
    \cup {<<"RangeBound", ty.hi>> : ty \in {x \in RenderTypes : x.t = "Range"}}
    \cup {<<"SpecialListLiteralTerm", q[2][i]>> :
            q \in {x \in RenderSeqs : x[1] = "SpecialListLiteralTerm" /\ Len(x[2]) = 2},
            i \in 1..2}
    \cup {<<"PascalToken", tok>> : tok \in {Ident("a"), RW("not"), P("Plus")}}

PushTexts == {"a", "label"}
Scopes == {"KEYWORD_SCOPE", "COMMENT_SCOPE"}
TexInserts == {"XetexArrayMacroHackMarker", "XetexArrayMacroHackBracket", "EndMacro"}

\* the Prettifier after n calls of indent_block
RECURSIVE indent_blocks(_, _)
indent_blocks(d, n) == IF n = 0 THEN d ELSE indent_blocks(indent_block(d), n - 1)

\* a text of full_width characters
FullLine == LongName \o LongName

\* The Prettifiers rendering starts from: a new one, and a new one after 14
\* indent_block calls, each before or after one indent_small call; and one
\* whose first line is full and is to be followed by a newline
StartBlocks == {0, 14}

InitRender ==
    /\ syntax = <<>>
    /\ input = <<>>
    /\ value = <<>>
    /\ pc = "render"
    /\ result = None
    /\ \/ \E n \in StartBlocks :
             dest \in {indent_blocks(new, n), indent_small(indent_blocks(new, n))}
       \/ dest = newline_needed(noscope_push(new, FullLine))
    /\ last = NoCall
    /\ calls = 0

\* One call op(arg) that leaves the Prettifier d
Called(op, arg, d) ==
    /\ pc = "render"
    /\ calls < MaxCalls
    /\ calls' = calls + 1
    /\ dest' = d
    /\ last' = [op |-> op, arg |-> arg, before |-> dest]
    /\ UNCHANGED <<syntax, input, value, pc, result>>

NewlineNeeded == Called("newline_needed", <<>>, newline_needed(dest))

NewlineIndent == Called("newline_indent", <<>>, newline_indent(dest))

ToplevelSeparator == Called("toplevel_separator", <<>>, toplevel_separator(dest))

Space == Called("space", <<>>, space(dest))

ScopePush ==
    \E scope \in Scopes, text \in PushTexts :
        Called("scope_push", <<scope, text>>, scope_push(dest, scope, text))

Keyword == \E text \in PushTexts : Called("keyword", text, keyword(dest, text))

NoscopePush ==
    \E text \in PushTexts : Called("noscope_push", text, noscope_push(dest, text))

Insert ==
    \E ins \in TexInserts, text_next \in BOOLEAN :
        Called("insert", <<ins, text_next>>, insert(dest, ins, text_next))

\* with_scope(scope, |d| d.noscope_push(text))
WithScope ==
    \E scope \in Scopes, text \in PushTexts :
        Called("with_scope", <<scope, text>>,
               with_scope_end(noscope_push(with_scope_begin(dest, scope), text)))

RenderInline ==
    \E x \in RenderItems : Called("render_inline", x, render_inline(x[1], x[2], dest))

RenderInlineSeq ==
    \E q \in RenderSeqs :
        Called("render_inline_seq", q, render_inline_seq(q[1], q[2], ", ", dest))

RenderFlex ==
    \E e \in RenderExprs : Called("render_flex", e, WebExpr_render_flex(e, dest))

RenderFlexType ==
    \E ty \in RenderTypes :
        Called("WebType::render_flex", ty, WebType_render_flex(ty, dest))

Prettify ==
    \E tl \in RenderToplevels : Called("prettify", tl, prettify(tl, dest))

\* emit(theme, inline) takes the Prettifier by value: no call follows it
Emit ==
    \E inline \in BOOLEAN :
        /\ pc = "render"
        /\ pc' = "emitted"
        /\ result' = emit(dest, inline)
        /\ last' = [op |-> "emit", arg |-> inline, before |-> dest]
        /\ UNCHANGED <<syntax, input, value, dest, calls>>

NextRender ==
    \/ NewlineNeeded \/ NewlineIndent \/ ToplevelSeparator \/ Space
    \/ ScopePush \/ Keyword \/ NoscopePush \/ Insert \/ WithScope
    \/ RenderInline \/ RenderInlineSeq \/ RenderFlex \/ RenderFlexType \/ Prettify
    \/ Emit

SpecRender == InitRender /\ [][NextRender]_vars

(***************************************************************************)
(* Properties of WebCode::parse (SpecParse).                               *)
(***************************************************************************)

\* C1: WebCode::parse is all-or-nothing.  For a non-empty token sequence, once
\* parse has returned: Some is returned only when no token is left unconsumed,
\* and it carries every collected toplevel; when a token remains after the last
\* successful toplevel, or the first toplevel failed (nothing was collected),
\* None is returned.  Before parse returns, nothing is returned.
C1_AllOrNothing ==
    /\ (pc # "done") => (result = None)
    /\ (pc = "done" /\ Len(syntax) > 0) =>
        /\ result.some => (Len(input) = 0 /\ Len(value) > 0 /\ result.code = value)
        /\ (Len(input) > 0 \/ Len(value) = 0) => (result = None)

\* C1 happens: toplevels were collected, a token remains, and None is returned
C1_Witness ==
    /\ pc = "done"
    /\ Len(value) > 0
    /\ Len(input) > 0
    /\ result = None

\* C3: parsing a token sequence of length zero returns Some with exactly one
\* toplevel, WebToplevel::Empty, and never a failure: with an empty syntax,
\* parse goes from its start straight to its return, and returns that value.
C3_EmptyInput ==
    (Len(syntax) = 0) =>
        /\ pc \in {"start", "done"}
        /\ (pc = "start") => (result = None /\ value = <<>>)
        /\ (pc = "done") => (result = [some |-> TRUE, code |-> <<[t |-> "Empty"]>>])

\* C3 happens: parse has returned for the empty syntax
C3_Witness ==
    /\ Len(syntax) = 0
    /\ pc = "done"
    /\ result.some
    /\ Len(result.code) = 1

\* The tokens and nodes a node stores, in the order of its fields
Children(x) ==
    CASE x.t \in {"Token", "Literal", "Single"} -> <<x.tok>>
      [] x.t = "Paren" -> <<x.inner>>
      [] x.t = "PrefixUnary" -> <<x.op, x.inner>>
      [] x.t = "PostfixUnary" -> <<x.inner, x.op>>
      [] x.t = "Binary" -> <<x.lhs, x.op, x.rhs>>
      [] x.t \in {"Call", "Index"} -> <<x.target>> \o x.args
      [] x.t = "Range" -> <<x.lo, x.hi>>
      [] x.t = "Expr" ->
            IF "comment" \in DOMAIN x THEN <<x.e, x.comment>> ELSE <<x.e>>
      [] x.t = "Format" -> <<x.inner, x.width>>
      [] x.t = "Field" -> <<x.item, x.field>>
      [] x.t \in {"ModuleReference", "Label", "PackedFileOf", "UserDefined"} -> <<x.name>>
      [] x.t = "Block" -> <<x.opener>> \o x.stmts \o <<x.closer, x.post_comment>>
      [] x.t = "Assignment" -> <<x.lhs, x.rhs, x.comment>>
      [] x.t = "Goto" -> <<x.label, x.comment>>
      [] x.t = "If" -> <<x.test, x.then, x.else_>>
      [] x.t = "While" -> <<x.test, x.do_>>
      [] x.t = "For" -> <<x.var, x.start, x.end, x.do_>>
      [] x.t = "Loop" -> <<x.keyword, x.do_>>
      [] x.t = "OtherCases" -> <<x.tag, x.stmt, x.comment>>
      [] x.t = "Standard" -> x.matches \o <<x.stmt, x.comment>>
      [] x.t = "Case" -> <<x.var>> \o x.items
      [] x.t = "SpecialFreeCase" -> x.matches \o <<x.stmt>>
      [] x.t = "PreprocessorDirective" -> <<x.d>>
      [] x.t = "Statement" -> <<x.stmt, x.comment>>
      [] x.t = "Pointer" -> <<x.ty>>
      [] x.t = "UnarySymbolic" -> <<x.op, x.name>>
      [] x.t = "Symbolic2" -> <<x.name, x.op, x.lit>>
      [] x.t = "Array" -> x.axes \o <<x.element>>
      [] x.t = "Record" -> x.fields
      [] x.t = "RecordField" -> x.names \o <<x.ty, x.comment>>
      [] x.t = "LabelDeclaration" -> <<x.name, x.comment>>
      [] x.t = "ModulifiedDeclaration" -> <<RW(x.kind), x.module>>
      [] x.t = "ConstDeclaration" -> <<x.name, x.value, x.comment>>
      [] x.t = "VarDeclaration" -> x.names \o <<x.ty, x.comment>>
      [] x.t = "TypeDeclaration" -> <<x.name, x.ty, x.comment>>
      [] x.t = "Standalone" -> <<x.token, x.comment>>
      [] x.t = "SpecialParenTwoIdent" -> <<x.id1, x.id2>>
      [] x.t = "SpecialRelationalExpr" -> <<x.op, x.e>>
      [] x.t \in {"SpecialRange"} -> <<x.e1, x.e2>>
      [] x.t \in {"SpecialIfdefFunction", "SpecialIfdefForward"} -> <<x.beg, x.fd, x.end>>
      [] x.t = "SpecialIfdefVarDeclaration" ->
            <<x.c1, x.beg>> \o x.vds \o <<x.end, x.c2>>
      [] x.t = "SpecialCommentedOut" -> <<x.stmt>>
      [] x.t = "Unary" -> <<x.op, x.tok>>
      [] x.t \in {"SpecialListLiteralAssignment"} -> x.lhs \o x.rhs
      [] x.t = "SpecialListLiteral" -> x.terms
      [] x.t = "SpecialIdentInListLiteral" -> <<x.id>> \o x.terms
      [] x.t = "SpecialInlineDefine" -> <<x.lhs, x.rhs>>
      [] x.t = "SpecialCommaExprs" -> x.exprs
      [] x.t = "SpecialArrayMacro" -> <<x.e1, x.e2, x.id>>
      [] x.t = "SpecialFloatEquality" -> <<x.id, x.frac>>
      [] x.t = "SpecialCoeffArray" -> <<x.name, x.coeff, x.base>>
      [] x.t = "SpecialExprPeriod" -> <<x.e>>
      [] OTHER -> <<>>

\* The tokens a tree holds, in order (a token is a record with a kind k)
RECURSIVE TreeTokens(_)
RECURSIVE TreeTokensOfAll(_)
TreeTokens(x) == IF "k" \in DOMAIN x THEN <<x>> ELSE TreeTokensOfAll(Children(x))

TreeTokensOfAll(xs) ==
    IF xs = <<>> THEN <<>> ELSE TreeTokens(Head(xs)) \o TreeTokensOfAll(Tail(xs))

\* s is t with some elements left out
RECURSIVE IsSubsequence(_, _)
IsSubsequence(s, t) ==
    IF s = <<>> THEN TRUE
    ELSE IF t = <<>> THEN FALSE
    ELSE IF Head(s) = Head(t) THEN IsSubsequence(Tail(s), Tail(t))
    ELSE IsSubsequence(s, Tail(t))

RECURSIVE RightNested(_)
RightNested(s) ==
    IF Len(s) = 1
    THEN [t |-> "Token", tok |-> s[1]]
    ELSE [t |-> "Binary", lhs |-> [t |-> "Token", tok |-> s[1]], op |-> s[2],
          rhs |-> RightNested(SubSeq(s, 3, Len(s)))]

\* a1 op1 a2 ... an with n >= 2, atoms and binary operators alternating
IsChain(s) ==
    /\ Len(s) >= 3
    /\ Len(s) % 2 = 1
    /\ \A i \in 1..Len(s) :
          IF i % 2 = 1 THEN s[i] \in ChainAtoms ELSE s[i] \in ChainOps

\* C4: parse_expr has no precedence levels and groups chained binary operators
\* to the right: applied to a1 op1 a2 ... an (n >= 2 atoms, any accepted binary
\* operators), it consumes the whole chain and yields Binary(a1, op1,
\* Binary(a2, op2, ...)), whichever operators are used.
C4_RightGrouping ==
    (last.op = "parse_expr" /\ IsChain(last.arg)) =>
        /\ last.ret.ok
        /\ last.ret.rest = <<>>
        /\ last.ret.val = RightNested(last.arg)

\* C4 happens: parse_expr was applied to a * b + c
C4_Witness ==
    /\ last.op = "parse_expr"
    /\ last.arg = <<Ident("a"), P("Times"), Ident("b"), P("Plus"), Ident("b")>>
    /\ last.ret.ok
    /\ last.ret.val.t = "Binary"
    /\ last.ret.val.rhs.t = "Binary"

(***************************************************************************)
(* Properties of the indent calls (SpecIndent).                            *)
(***************************************************************************)
\* C7: after any sequence of indent_block, dedent_block, indent_small and
\* dedent_small calls from new(), indent is a non-negative multiple of 2; a
\* block call changes it by exactly 4 or not at all, a small call by exactly 2
\* or not at all.
C7_IndentInvariant ==
    /\ dest.indent >= 0
    /\ dest.indent % 2 = 0
    /\ last.op = "indent_block" => dest.indent - last.before.indent \in {0, 4}
    /\ last.op = "dedent_block" => last.before.indent - dest.indent \in {0, 4}
    /\ last.op = "indent_small" => dest.indent - last.before.indent \in {0, 2}
    /\ last.op = "dedent_small" => last.before.indent - dest.indent \in {0, 2}

\* a dedent_block refused at indent 2, after the indent had been larger
C7_Witness ==
    /\ last.op = "dedent_block"
    /\ last.before.indent = 2
    /\ dest.indent = 2

(***************************************************************************)
(* Properties of the Prettifier and of rendering (SpecRender).             *)
(***************************************************************************)
\* what the last call appended to the text buffer
Appended == SubSeq(dest.text, Len(last.before.text) + 1, Len(dest.text))

Newlines(text) == Cardinality({i \in 1..Len(text) : text[i] = "\n"})

\* the characters of text that are neither a space pushed by space() or an
\* indent, nor a newline
Printable(text) ==
    len(SelectSeq(text, LAMBDA span : span \notin {" ", "\n"}))

\* the column reached after the i-th string of text
RECURSIVE Column(_, _)
Column(text, i) ==
    IF i = 0 THEN 0
    ELSE IF text[i] = "\n" THEN 0
    ELSE Column(text, i - 1) + Len(text[i])

LinesFit(text, width) == \A i \in 1..Len(text) : Column(text, i) <= width

\* C5, as claimed: after a parsed toplevel is rendered into a new Prettifier,
\* every line of the text buffer has at most full_width characters.
C5_LinesFit ==
    (last.op = "prettify" /\ last.before = new) =>
        LinesFit(dest.text, dest.full_width)

\* the width measure_inline states for the item or sequence of the last call
Measured ==
    IF last.op = "render_inline" THEN measure_inline(last.arg[1], last.arg[2])
    ELSE measure_inline_seq(last.arg[1], last.arg[2], 2)

InlineCall ==
    /\ last.op \in {"render_inline", "render_inline_seq"}
    /\ fits(last.before, Measured)

\* C6, as claimed: when fits(n.measure_inline()) is true, n.render_inline
\* appends exactly n.measure_inline() characters and no newline.
C6_MeasureIsRendered ==
    InlineCall => (len(Appended) = Measured /\ Newlines(Appended) = 0)

\* C6: when fits(n.measure_inline()) is true, n.render_inline appends exactly
\* n.measure_inline() characters and no newline, behind the newline and the
\* indent spaces that its first push writes if a newline was pending.
C6_MeasureIsRenderedBehindNewline ==
    InlineCall =>
        IF last.before.newline_needed /\ Appended # <<>>
        THEN /\ Appended[1] = "\n"
             /\ Newlines(Appended) = 1
             /\ len(Appended) = 1 + last.before.indent + Measured
        ELSE /\ Newlines(Appended) = 0
             /\ len(Appended) = Measured

\* an array type of two axes rendered inline with a newline pending
C6_Witness ==
    /\ last.op = "render_inline"
    /\ InlineCall
    /\ last.arg[1] = "WebType"
    /\ last.arg[2].t = "Array"
    /\ Len(last.arg[2].axes) = 2
    /\ last.before.newline_needed
    /\ last.before.indent > 0

\* C8, as claimed: render_flex of an expression appends the text of the
\* expression, whatever its variant: at least the characters of its tokens.
C8_RenderFlexTotal ==
    last.op = "render_flex" =>
        Printable(Appended) >= len([i \in 1..Len(TreeTokens(last.arg)) |->
                                        TokenText(TreeTokens(last.arg)[i])])

\* C9: ops and inserts are each non-decreasing in offset, and every offset is
\* at most the length of the text buffer.
C9_OffsetsOrdered ==
    /\ \A i \in 1..(Len(dest.ops) - 1) : dest.ops[i].at <= dest.ops[i + 1].at
    /\ \A i \in 1..(Len(dest.inserts) - 1) : dest.inserts[i].at <= dest.inserts[i + 1].at
    /\ \A i \in 1..Len(dest.ops) : dest.ops[i].at <= len(dest.text)
    /\ \A i \in 1..Len(dest.inserts) : dest.inserts[i].at <= len(dest.text)

\* a scoped push, then the array macro with its two inserts and its scoped push
C9_Witness ==
    /\ last.op = "prettify"
    /\ last.arg.t = "SpecialArrayMacro"
    /\ Len(dest.ops) = 4
    /\ Len(dest.inserts) = 2
    /\ dest.ops[2].at > 0
    /\ dest.inserts[2].at > dest.inserts[1].at

(***************************************************************************)
(* The scenarios of parsing (SpecParse).                                   *)
(***************************************************************************)

\* C11: parsing `x := y + 1 ;` yields exactly one toplevel, a Statement holding
\* Assignment{lhs=Token(x), rhs=Binary(Token(y), +, Token(1))}; the assignment
\* consumed the semicolon, so the one application of parse_toplevel left nothing.
C11_AssignmentScenario ==
    (syntax = AssignmentScenario) =>
        /\ (pc = "many1") => (input = <<>> /\ Len(value) = 1)
        /\ (pc = "done") =>
            /\ result.some
            /\ Len(result.code) = 1
            /\ result.code[1].t = "Statement"
            /\ result.code[1].stmt.t = "Assignment"
            /\ result.code[1].stmt.lhs = [t |-> "Token", tok |-> Ident("x")]
            /\ result.code[1].stmt.rhs =
                   [t |-> "Binary", lhs |-> [t |-> "Token", tok |-> Ident("y")],
                    op |-> P("Plus"), rhs |-> [t |-> "Token", tok |-> IntLit("1")]]

\* C11 happens: parse has returned for `x := y + 1 ;`
C11_Witness ==
    /\ syntax = AssignmentScenario
    /\ pc = "done"
    /\ result.some

\* C12, as claimed: parsing `const foo = 42 ;` yields a ConstDeclaration with
\* name foo and value 42 that accounts for all five tokens, so it is the only
\* toplevel.
C12_ConstDeclarationTakesAll ==
    (syntax = ConstScenario /\ pc = "done") =>
        /\ result.some
        /\ Len(result.code) = 1
        /\ result.code[1].t = "ConstDeclaration"
        /\ result.code[1].name = Ident("foo")
        /\ result.code[1].value = IntLit("42")

\* C12, amended: parsing `const foo = 42 ;` yields two toplevels: the reserved
\* word const as a Standalone, then a ConstDeclaration with name foo and value
\* 42 that accounts for the four tokens `foo = 42 ;`.
C12_ConstDeclarationAfterStandalone ==
    (syntax = ConstScenario /\ pc = "done") =>
        /\ result.some
        /\ Len(result.code) = 2
        /\ result.code[1].t = "Standalone"
        /\ result.code[1].token = RW("const")
        /\ result.code[2].t = "ConstDeclaration"
        /\ result.code[2].name = Ident("foo")
        /\ result.code[2].value = IntLit("42")
        /\ TreeTokens(result.code[2]) = <<Ident("foo"), IntLit("42")>>

\* C12 happens: parse has returned for `const foo = 42 ;`
C12_Witness ==
    /\ syntax = ConstScenario
    /\ pc = "done"
    /\ result.some
    /\ Len(result.code) = 2

(***************************************************************************)
(* Properties of the layout rendering of types (SpecRender).               *)
(***************************************************************************)
\* the lines of text: the strings between two newlines
RECURSIVE Lines(_)
Lines(text) ==
    IF \A i \in 1..Len(text) : text[i] # "\n" THEN <<text>>
    ELSE LET i == CHOOSE i \in 1..Len(text) :
                    text[i] = "\n" /\ \A j \in 1..(i - 1) : text[j] # "\n"
         IN  <<SubSeq(text, 1, i - 1)>> \o Lines(SubSeq(text, i + 1, Len(text)))

\* the number of single spaces a line starts with
LeadingSpaces(line) ==
    Cardinality({n \in 1..Len(line) : \A j \in 1..n : line[j] = " "})

\* a record whose fields hold no comment and no array or record
PlainRecord(ty) ==
    /\ ty.t = "Record"
    /\ \A i \in 1..Len(ty.fields) :
        /\ ty.fields[i].comment = Nil
        /\ ty.fields[i].ty.t \notin {"Array", "Record"}

\* C13, as claimed, for a record whose fields hold no comment and no array or
\* record, rendered with no newline pending: render_flex renders one field per
\* line, each field line at the record's indent + 4 and ending in a comma, then
\* the closing brace on its own line at exactly the indent the record started
\* with, whatever that indent is.
C13_RecordLayout ==
    (/\ last.op = "WebType::render_flex"
     /\ PlainRecord(last.arg)
     /\ ~last.before.newline_needed) =>
        LET ls == Lines(Appended)
            n == Len(last.arg.fields)
        IN  /\ Len(ls) = n + 2
            /\ \A i \in 2..(n + 1) :
                /\ LeadingSpaces(ls[i]) = last.before.indent + 4
                /\ ls[i][Len(ls[i])] = ","
            /\ ls[n + 2] = [j \in 1..last.before.indent |-> " "] \o <<"}">>
            /\ dest.indent = last.before.indent

\* the scenario `array [ 1 .. 10 ] of integer`
ArrayScenario ==
    <<RW("array"), Open("SquareBracket"), IntLit("1"), P("DoubleDot"), IntLit("10"),
      Close("SquareBracket"), RW("of"), Ident("integer")>>

\* the characters of text, as one string
RECURSIVE Characters(_)
Characters(text) == IF text = <<>> THEN "" ELSE Head(text) \o Characters(Tail(text))

\* C14: on a new Prettifier (width 60, indent 0) render_flex of the array type
\* with the single axis 1..10 and the element type integer appends exactly
\* `array [1 .. 10] of integer`; and an unpacked array whose axes width + element
\* width + 5 fits once `array [` is appended is rendered on one line: no newline
\* is appended but the pending one, if there was one, in front of `array [`.
C14_ArrayInline ==
    (/\ last.op = "WebType::render_flex"
     /\ last.arg.t = "Array"
     /\ ~last.arg.is_packed) =>
        LET wx == measure_inline_seq("WebType", last.arg.axes, 2)
            we == measure_inline("WebType", last.arg.element)
        IN  /\ (last.arg = call("parse_type", ArrayScenario).val /\ last.before = new) =>
                Characters(Appended) = "array [1 .. 10] of integer"
            /\ fits(noscope_push(last.before, "array ["), wx + we + 5) =>
                /\ Newlines(Appended) = (IF last.before.newline_needed THEN 1 ELSE 0)
                /\ last.before.newline_needed => (Appended[1] = "\n")
                /\ dest.indent = last.before.indent

\* C14 happens: the scenario is rendered on a new Prettifier
C14_Witness ==
    /\ last.op = "WebType::render_flex"
    /\ last.arg = call("parse_type", ArrayScenario).val
    /\ last.before = new
    /\ Len(Appended) = 6

\* C19, as claimed, for a binary expression rendered with no newline pending:
\* (1) it is rendered inline when its inline width fits; (2) when it does not,
\* but the left operand fits on the current line and the operator with the right
\* operand fits on a new line, both operands are rendered inline and only the
\* operator is moved to a new line, at the indent of the expression; the
\* explosion one indent step deeper is used only when neither fits.
C19_BinaryStrategies ==
    (/\ last.op = "render_flex"
     /\ last.arg.t = "Binary"
     /\ ~last.before.newline_needed) =>
        LET wl == measure_inline("WebExpr", last.arg.lhs)
            wr == measure_inline("WebExpr", last.arg.rhs)
            wo == measure_inline("PascalToken", last.arg.op)
            lhs == render_inline("WebExpr", last.arg.lhs, last.before)
            op == render_inline("PascalToken", last.arg.op, newline_indent(lhs))
            rhs == render_inline("WebExpr", last.arg.rhs, space(op))
        IN  /\ fits(last.before, wl + wr + wo + 2) => (Newlines(Appended) = 0)
            /\ (/\ ~fits(last.before, wl + wr + wo + 2)
                /\ fits(last.before, wl)
                /\ would_fit_on_new_line(last.before, wo + 1 + wr)) =>
                    (dest.text = rhs.text)

(***************************************************************************)
(* Termination of parsing (SpecParse).                                     *)
(***************************************************************************)
\* the input from its n-th token on: every cursor parsing can reach
Cursor(n) == SubSeq(syntax, n + 1, Len(syntax))

\* the parser consumes at least one token whenever it succeeds on in
Advances(r, in) == r.ok => (Len(r.rest) < Len(in))

\* C15: parsing terminates, as every step consumes.  At every cursor: the
\* prefix operator and the opening parenthesis that precede the recursive
\* parse_expr of a head consume a token; the head of parse_expr consumes, so
\* that the binary tail, the call arguments and the index terms, which come
\* after a head, recurse on a shorter input than parse_expr received; a tail
\* that matches, and lets the loop continue, consumes; and a successful
\* application of the toplevel dispatcher consumes.
C15_EveryStepConsumes ==
    /\ \A n \in 0..Len(syntax) :
        Advances(prefix_unary_expr_op(Cursor(n)), Cursor(n))
    /\ \A n \in 0..Len(syntax) :
        Advances(open_delimiter("Paren", Cursor(n)), Cursor(n))
    /\ \A n \in 0..Len(syntax) :
        /\ Advances(call("expr_head_alt", Cursor(n)), Cursor(n))
        /\ Advances(call("binary_expr_op", Cursor(n)), Cursor(n))
        /\ Advances(open_delimiter("SquareBracket", Cursor(n)), Cursor(n))
        /\ Advances(call("expr_tail_alt", Cursor(n)), Cursor(n))
        /\ Advances(call("parse_expr", Cursor(n)), Cursor(n))
    /\ (last.op = "parse_toplevel") => Advances(last.ret, last.arg)

\* C15 happens: parse has returned one toplevel for the input in which
\* parse_expr recurses from each of its five places
C15_Witness ==
    /\ syntax = RecursionScenario
    /\ pc = "done"
    /\ result.some
    /\ Len(result.code) = 1
    /\ result.code[1].stmt.rhs.t = "PrefixUnary"
    /\ result.code[1].stmt.rhs.inner.t = "Paren"
    /\ result.code[1].stmt.rhs.inner.inner.rhs.t = "Call"
    /\ result.code[1].stmt.lhs.t = "Index"

(***************************************************************************)
(* The deferred newline and the remaining width (SpecRender).              *)
(***************************************************************************)
\* the calls that append text of their own, and the text each appends
AppendCall == last.op \in {"scope_push", "keyword", "noscope_push", "space"}

OwnText ==
    CASE last.op = "scope_push" -> <<last.arg[2]>>
      [] last.op \in {"keyword", "noscope_push"} -> <<last.arg>>
      [] last.op = "space" -> <<" ">>
      [] OTHER -> <<>>

\* the pending newline, emitted: a newline and indent spaces
EmittedNewline == <<"\n">> \o [i \in 1..last.before.indent |-> " "]

\* C16, as claimed: newline_needed() appends nothing, also when called again;
\* the next append of any kind (scope_push, noscope_push, space, or insert with
\* text_next = true) first emits exactly one newline followed by indent spaces,
\* clearing the pending flag, and then its own text; a call that appends nothing
\* emits no newline.
C16_DeferredNewline ==
    /\ (last.op = "newline_needed") => (dest.text = last.before.text /\ dest.newline_needed)
    /\ ((AppendCall \/ (last.op = "insert" /\ last.arg[2])) /\ last.before.newline_needed) =>
        /\ Appended = EmittedNewline \o OwnText
        /\ ~dest.newline_needed
    /\ (AppendCall /\ ~last.before.newline_needed) => (Appended = OwnText)
    /\ (last.op = "insert" /\ ~last.arg[2]) =>
        (dest.text = last.before.text /\ dest.newline_needed = last.before.newline_needed)

\* the length of the current line of the buffer
CurrentLine(d) == Column(d.text, Len(d.text))

\* the remaining width an append call starts from: that of the new line, when
\* the call emits a pending newline first
WidthBefore ==
    IF last.before.newline_needed /\ last.op # "space"
    THEN last.before.full_width - last.before.indent
    ELSE last.before.remaining_width

OnlyIndentChanged(step) ==
    dest = [last.before EXCEPT !.indent = @ + step]

\* C18, as claimed: an indent or dedent call is refused, returning false and
\* changing no field, when it would leave less than its step of margin:
\* indent_block when full_width - (indent + 4) < 4, indent_small when
\* full_width - (indent + 2) < 2, dedent_block when indent < 4, dedent_small
\* when indent < 2; otherwise it returns true and changes only indent.
C18_RefusedBelowStep ==
    /\ (last.op = "indent_block") =>
        IF last.before.full_width - (last.before.indent + 4) < 4
        THEN ~last.ret /\ dest = last.before
        ELSE last.ret /\ OnlyIndentChanged(4)
    /\ (last.op = "indent_small") =>
        IF last.before.full_width - (last.before.indent + 2) < 2
        THEN ~last.ret /\ dest = last.before
        ELSE last.ret /\ OnlyIndentChanged(2)
    /\ (last.op = "dedent_block") =>
        IF last.before.indent < 4
        THEN ~last.ret /\ dest = last.before
        ELSE last.ret /\ OnlyIndentChanged(-4)
    /\ (last.op = "dedent_small") =>
        IF last.before.indent < 2
        THEN ~last.ret /\ dest = last.before
        ELSE last.ret /\ OnlyIndentChanged(-2)

\* ---------------------------------------------------------------------------
\* The order of the special forms (SpecParse)
\* ---------------------------------------------------------------------------

\* The list assignment `( t1 , ... , tn ) := ( u1 , ... , um )` that the tokens
\* of in begin with: its two lists and what follows it
ListAssignmentForm(in) ==
    LET l == delimited_int_list("Paren", in)
        g == pascal_token(P("Gets"), l.rest)
        r == delimited_int_list("Paren", g.rest)
    IN  [ok |-> l.ok /\ g.ok /\ r.ok, lhs |-> l.val, rhs |-> r.val, rest |-> r.rest]

\* C20: whenever parse_toplevel is applied to an input that begins, after its
\* ignored tokens, with `( t1 , ... , tn ) := ( u1 , ... , um )` of list-literal
\* terms, it returns a SpecialListLiteralAssignment of the two lists that
\* consumes the whole form, never the SpecialListLiteral of the first list.
C20_ListAssignmentWins ==
    (last.op = "parse_toplevel"
        /\ ListAssignmentForm(skip_ignored(last.arg)).ok) =>
        LET form == ListAssignmentForm(skip_ignored(last.arg)) IN
        /\ last.ret.ok
        /\ last.ret.val.t = "SpecialListLiteralAssignment"
        /\ last.ret.val.lhs = form.lhs
        /\ last.ret.val.rhs = form.rhs
        /\ last.ret.rest = form.rest

\* C20 happens: parse_toplevel has been applied to `( 1 .. 2 , - a ) := ( a ,
\* 1 , 1 ) a` and has left the token after the form
C20_Witness ==
    /\ syntax = ListAssignmentTerms
    /\ last.op = "parse_toplevel"
    /\ last.arg = syntax
    /\ ListAssignmentForm(skip_ignored(last.arg)).ok
    /\ last.ret.ok
    /\ last.ret.rest = <<Ident("a")>>

\* ---------------------------------------------------------------------------
\* The two forms of the block delimiters (SpecParse)
\* ---------------------------------------------------------------------------

\* C21: every site that opens or closes a block accepts the reserved word and
\* the formatted identifier that behaves like it: with either form of each
\* delimiter, parse_toplevel takes `begin a ; end` whole as a Block statement,
\* `case a of 1 : a ; endcases` whole as a Case statement, and
\* `init a : integer ; tini` whole as a conditional var declaration.
C21_BothDelimiterForms ==
    (last.op = "parse_toplevel" /\ last.arg = syntax) =>
        /\ (\E o \in BlockOpeners, c \in BlockClosers : syntax = BlockScenario(o, c)) =>
            /\ last.ret.ok
            /\ last.ret.rest = <<>>
            /\ last.ret.val.t = "Statement"
            /\ last.ret.val.stmt.t = "Block"
        /\ (\E c \in BlockClosers : syntax = CaseScenario(c)) =>
            /\ last.ret.ok
            /\ last.ret.rest = <<>>
            /\ last.ret.val.t = "Statement"
            /\ last.ret.val.stmt.t = "Case"
        /\ (\E o \in BlockOpeners, c \in BlockClosers : syntax = IfdefVarScenario(o, c)) =>
            /\ last.ret.ok
            /\ last.ret.rest = <<>>
            /\ last.ret.val.t = "SpecialIfdefVarDeclaration"

\* ---------------------------------------------------------------------------
\* The assignment target (SpecExpr)
\* ---------------------------------------------------------------------------

\* The tree e is an atom token under call, index and field nodes only,
\* followed down the targets of the tails
RECURSIVE LhsSpine(_)
LhsSpine(e) ==
    CASE e.t = "Token" -> TRUE
      [] e.t \in {"Call", "Index"} -> LhsSpine(e.target)
      [] e.t = "Field" -> LhsSpine(e.item)
      [] OTHER -> FALSE

\* The tokens that open a call, an index and a field tail
TailOpeners == {Open("Paren"), Open("SquareBracket"), P("Period")}

\* parse_lhs_expr succeeds exactly on an atom token head, and its result is an
\* atom under call, index and field tails
LhsAtomAndTails ==
    (last.op = "parse_lhs_expr") =>
        /\ last.ret.ok = parse_token_expr(last.arg).ok
        /\ last.ret.ok => LhsSpine(last.ret.val)

\* C22, as claimed: parse_lhs_expr accepts only an atom token head followed by
\* call, index or field tails, its result has no Binary, PrefixUnary,
\* PostfixUnary, Format or Paren node at the top or as the target of a tail,
\* and it stops without failing at the first token that starts none of the
\* three tails: what it leaves does not begin with `(`, `[` or `.`.
C22_StopsAtNonTailToken ==
    /\ LhsAtomAndTails
    /\ (last.op = "parse_lhs_expr" /\ last.ret.ok /\ last.ret.rest # <<>>) =>
           Head(last.ret.rest) \notin TailOpeners

\* C22, amended: parse_lhs_expr accepts only an atom token head followed by
\* call, index or field tails, its result has no Binary, PrefixUnary,
\* PostfixUnary, Format or Paren node at the top or as the target of a tail,
\* and it stops without failing at the first position from which none of the
\* three tails parses: a `(`, `[` or `.` whose tail does not parse is left.
C22_StopsWhereNoTailParses ==
    /\ LhsAtomAndTails
    /\ (last.op = "parse_lhs_expr" /\ last.ret.ok) =>
        /\ ~call_tail(last.ret.rest).ok
        /\ ~index_tail(last.ret.rest).ok
        /\ ~field_tail(last.ret.rest).ok
        /\ Len(last.ret.rest) < Len(last.arg)
        /\ last.ret.rest =
               SubSeq(last.arg, Len(last.arg) - Len(last.ret.rest) + 1, Len(last.arg))

\* C22 happens: parse_lhs_expr was applied to `a ( 1 ) [ 1 ] . a + 1`, took the
\* three tails and left `+ 1`
C22_Witness ==
    /\ last.op = "parse_lhs_expr"
    /\ last.arg = LhsScenario
    /\ last.ret.ok
    /\ last.ret.val.t = "Field"
    /\ last.ret.val.item.t = "Index"
    /\ last.ret.val.item.target.t = "Call"
    /\ last.ret.rest = <<P("Plus"), IntLit("1")>>

\* ---------------------------------------------------------------------------
\* The case statement (SpecParse)
\* ---------------------------------------------------------------------------

\* The toplevel tl is a case statement
IsCase(tl) == tl.t = "Statement" /\ tl.stmt.t = "Case"

\* The statement `a`
StatementA == [t |-> "Expr", e |-> [t |-> "Token", tok |-> Ident("a")], comment |-> Nil]

\* C23: a case statement is `case ident of`, one or more items, each a module
\* reference, an other-cases arm introduced by a formatted identifier that
\* behaves like else, or a standard arm of comma-separated labels, a colon and a
\* statement, and then a formatted identifier that behaves like end; without
\* that terminator parse_case fails and no Case node is produced.
C23_CaseStatement ==
    (last.op = "parse_toplevel") =>
        /\ (last.arg = CaseItemsScenario) =>
            /\ last.ret.ok
            /\ last.ret.rest = <<>>
            /\ IsCase(last.ret.val)
            /\ last.ret.val.stmt.var = Ident("a")
            /\ last.ret.val.stmt.items =
                 <<[t |-> "ModuleReference", name |-> Tok("ModuleReference", "m")],
                   [t |-> "Standard", matches |-> <<IntLit("1"), Ident("a")>>,
                    stmt |-> StatementA, comment |-> Nil],
                   [t |-> "OtherCases", tag |-> FmtLike("Else"), stmt |-> StatementA,
                    comment |-> Nil]>>
        /\ (last.arg \in UnterminatedCases) =>
            /\ ~parse_case(last.arg).ok
            /\ last.ret.ok => ~IsCase(last.ret.val)
        /\ (last.ret.ok /\ IsCase(last.ret.val)) =>
            LET in == skip_ignored(last.arg)
                taken == SubSeq(in, 1, Len(in) - Len(last.ret.rest))
                items == last.ret.val.stmt.items
            IN  /\ Len(taken) >= 5
                /\ taken[1] = RW("case")
                /\ taken[2] = last.ret.val.stmt.var
                /\ taken[2].k = "Identifier"
                /\ taken[3] = RW("of")
                /\ Len(items) >= 1
                /\ \A i \in DOMAIN items :
                       items[i].t \in {"ModuleReference", "OtherCases", "Standard"}
                /\ (items[1].t = "ModuleReference") = (taken[4].k = "ModuleReference")
                /\ (items[1].t = "OtherCases") = (taken[4] = FmtLike("Else"))
                /\ \/ taken[Len(taken)] = FmtLike("End")
                   \/ /\ taken[Len(taken)] = P("Semicolon")
                      /\ taken[Len(taken) - 1] = FmtLike("End")

\* C23 happens: parse_toplevel was applied to the case statement of three
\* items and returned a Case
C23_Witness ==
    /\ last.op = "parse_toplevel"
    /\ last.arg = CaseItemsScenario
    /\ last.ret.ok
    /\ IsCase(last.ret.val)
    /\ Len(last.ret.val.stmt.items) = 3

\* ---------------------------------------------------------------------------
\* The markers (SpecRender)
\* ---------------------------------------------------------------------------

\* the marker recorded last in the Prettifier d
LastInsert(d) == d.inserts[Len(d.inserts)]

\* C24: markers carry no width.  insert(ins, false) appends the one entry
\* (text.len(), ins) to inserts and leaves text, ops, indent, remaining_width
\* and newline_needed as they were; insert(ins, true) differs only by first
\* flushing a pending newline (a newline and indent spaces, the width of a new
\* line remaining), so that the recorded offset is the offset at which the text
\* appended next starts.
C24_InsertNoWidth ==
    /\ (last.op = "insert") =>
        /\ Len(dest.inserts) = Len(last.before.inserts) + 1
        /\ SubSeq(dest.inserts, 1, Len(last.before.inserts)) = last.before.inserts
        /\ LastInsert(dest).ins = last.arg[1]
        /\ dest.ops = last.before.ops
        /\ dest.indent = last.before.indent
        /\ dest.full_width = last.before.full_width
    /\ (last.op = "insert" /\ ~(last.arg[2] /\ last.before.newline_needed)) =>
        /\ dest.text = last.before.text
        /\ dest.remaining_width = last.before.remaining_width
        /\ dest.newline_needed = last.before.newline_needed
        /\ LastInsert(dest).at = len(last.before.text)
    /\ (last.op = "insert" /\ last.arg[2] /\ last.before.newline_needed) =>
        /\ Appended = EmittedNewline
        /\ dest.remaining_width = dest.full_width - dest.indent
        /\ ~dest.newline_needed
        /\ LastInsert(dest).at = len(dest.text)
    /\ (last.op = "insert" /\ last.arg[2]) =>
        /\ ~dest.newline_needed
        /\ LastInsert(dest).at = len(dest.text)
    /\ (/\ last.op \in {"scope_push", "keyword", "noscope_push"}
        /\ last.before.inserts # <<>>
        /\ ~last.before.newline_needed
        /\ LastInsert(last.before).at = len(last.before.text)) =>
        /\ Appended = OwnText
        /\ len(dest.text) = LastInsert(last.before).at + len(OwnText)

\* C24 happens: insert(ins, true) was called with a newline pending at an
\* indent, and has recorded the offset behind the newline and the indent
C24_Witness ==
    /\ last.op = "insert"
    /\ last.arg[2]
    /\ last.before.newline_needed
    /\ last.before.indent > 0
    /\ LastInsert(dest).at = len(last.before.text) + 1 + last.before.indent

\* ---------------------------------------------------------------------------
\* The balance of the indentation (SpecRender)
\* ---------------------------------------------------------------------------

\* C25: indentation is balanced across rendering: whatever the node and the
\* Prettifier it starts from, indent after render_flex equals indent before
\* it, also when the node's indent_block or indent_small call was refused.
C25_IndentBalanced ==
    (last.op \in {"render_flex", "WebType::render_flex"}) =>
        dest.indent = last.before.indent

\* ---------------------------------------------------------------------------
\* The folds of parse_expr (SpecExpr)
\* ---------------------------------------------------------------------------

\* The nodes made by folding a tail onto an expression, and that expression
FoldKinds == {"Binary", "PostfixUnary", "Call", "Index", "Field", "Format"}

Folded(x) ==
    CASE x.t = "Binary" -> x.lhs
      [] x.t \in {"PostfixUnary", "Format"} -> x.inner
      [] x.t \in {"Call", "Index"} -> x.target
      [] x.t = "Field" -> x.item

\* In the tree x no Binary node has a Binary or PrefixUnary left operand
RECURSIVE NoBinaryOnBinary(_)
NoBinaryOnBinary(x) ==
    /\ (x.t = "Binary") => (x.lhs.t \notin {"Binary", "PrefixUnary"})
    /\ \A i \in DOMAIN Children(x) :
           LET c == Children(x)[i] IN
           ("t" \in DOMAIN c /\ c.t # "Nil") => NoBinaryOnBinary(c)

\* In the tree x no tail is folded onto a Binary or PrefixUnary node
RECURSIVE FoldsAreLast(_)
FoldsAreLast(x) ==
    /\ (x.t \in FoldKinds) => (Folded(x).t \notin {"Binary", "PrefixUnary"})
    /\ \A i \in DOMAIN Children(x) :
           LET c == Children(x)[i] IN
           ("t" \in DOMAIN c /\ c.t # "Nil") => FoldsAreLast(c)

\* C26: in every tree returned by parse_expr the left operand of a Binary node
\* is never a Binary or PrefixUnary node: the recursive parse_expr of a binary
\* tail or of a prefix-unary head has consumed every tail that could follow,
\* so the enclosing loop folds nothing onto it, and what parse_expr leaves
\* begins no tail.
C26_BinaryFoldIsLast ==
    (last.op = "parse_expr" /\ last.ret.ok) =>
        /\ NoBinaryOnBinary(last.ret.val)
        /\ FoldsAreLast(last.ret.val)
        /\ ~expr_tail_alt(last.ret.rest).ok

\* C26 happens: parse_expr was applied to `- a + b * 1` and returned the
\* PrefixUnary of a Binary whose right operand is a Binary
C26_Witness ==
    /\ last.op = "parse_expr"
    /\ last.arg = <<P("Minus"), Ident("a"), P("Plus"), Ident("b"), P("Times"), IntLit("1")>>
    /\ last.ret.ok
    /\ last.ret.rest = <<>>
    /\ last.ret.val.t = "PrefixUnary"
    /\ last.ret.val.inner.t = "Binary"
    /\ last.ret.val.inner.rhs.t = "Binary"

\* ---------------------------------------------------------------------------
\* The soundness of fits (SpecRender)
\* ---------------------------------------------------------------------------

\* the calls that append text and no newline of their own
TextCall ==
    last.op \in {"scope_push", "keyword", "noscope_push", "space", "with_scope",
                 "render_inline", "render_inline_seq"}

\* the pending newline was flushed by the last call: a newline and the indent
\* are in front of what it appended
Flushed ==
    /\ last.before.newline_needed
    /\ Len(Appended) > last.before.indent
    /\ SubSeq(Appended, 1, 1 + last.before.indent) = EmittedNewline

\* the characters the last call added, the flushed newline and indent aside
AddedWidth ==
    IF Flushed THEN len(Appended) - (1 + last.before.indent) ELSE len(Appended)

\* the last call appended no newline other than the flushed pending one
NoOtherNewline == Newlines(Appended) = (IF Flushed THEN 1 ELSE 0)

\* C27: fits is sound.  When the current line is within full_width, fits(w)
\* is true, and the appends that follow add w characters in all, no newline but
\* the flushed pending one, and leave indent as it is, then the line holding
\* those characters has at most full_width characters; fits(w) is
\* would_fit_on_new_line(w) with a newline pending and w <= remaining_width
\* without.
C27_FitsSound ==
    /\ (/\ TextCall
        /\ CurrentLine(last.before) <= last.before.full_width
        /\ fits(last.before, AddedWidth)
        /\ NoOtherNewline
        /\ dest.indent = last.before.indent) =>
            CurrentLine(dest) <= dest.full_width
    /\ \A w \in 0..(dest.full_width + 1) :
           fits(dest, w) = IF dest.newline_needed THEN would_fit_on_new_line(dest, w)
                           ELSE w <= dest.remaining_width

\* ---------------------------------------------------------------------------
\* The markers in emit (SpecRender)
\* ---------------------------------------------------------------------------

\* C28: emit applies every recorded marker exactly once, in the order of the
\* list, when the offset of the text emitted so far equals the offset recorded
\* with the marker: when emit finishes no entry of inserts has been passed
\* over or is left, whatever the render operations have recorded, array-macro
\* markers that are not the first entry and markers inside of a styled span
\* included.
C28_EveryMarkerEmitted ==
    (last.op = "emit") =>
        /\ result.insert_idx = Len(dest.inserts)
        /\ Len(result.printed) = Len(dest.inserts)
        /\ \A k \in DOMAIN dest.inserts :
            /\ result.printed[k].idx = k - 1
            /\ result.printed[k].ins = dest.inserts[k].ins
            /\ result.printed[k].at = dest.inserts[k].at

\* ---------------------------------------------------------------------------
\* The ignored tokens (SpecParse)
\* ---------------------------------------------------------------------------

\* The tokens parse_toplevel skips, and the runs of one or two of them
IgnoredTokens == {P("Formatting"), P("ForcedEol"), Tok("TexString", "t")}

IgnoredRuns ==
    {<<a>> : a \in IgnoredTokens} \cup {<<a, b>> : a \in IgnoredTokens, b \in IgnoredTokens}

\* The input with the tokens of run put in where parse stands: before the
\* first toplevel, between two toplevels, or after the last one
WithIgnored(run) ==
    (SubSeq(syntax, 1, Len(syntax) - Len(input)) \o run) \o input

\* C29: the ignored tokens (Formatting, ForcedEol, TexString) are transparent
\* to the toplevel dispatcher: when the input parses, any run of them put in
\* before its first toplevel, between two of its toplevels or after its last
\* toplevel leaves the result of parse as it is, and never makes it None.
C29_IgnoredTransparent ==
    /\ (pc = "done") => (result = parse(syntax))
    /\ (pc \in {"start", "many1"} /\ parse(syntax).some) =>
           \A run \in IgnoredRuns : parse(WithIgnored(run)) = parse(syntax)

(***************************************************************************)
(* C30: the indent stays below the width (SpecIndent).                     *)
(***************************************************************************)

\* The unsigned subtraction full_width - indent of fits, would_fit_on_new_line,
\* indent_block, indent_small and newline_indent, computed on the Prettifier d:
\* it does not underflow exactly when indent <= full_width
NoUnderflow(d) == d.full_width - d.indent >= 0

\* C30: in every Prettifier that indent and dedent calls reach, and in the one
\* each call started from, indent < full_width, and indent <= 58 for the width
\* of 60, so full_width - indent does not underflow; remaining_width is at most
\* full_width, also after a newline_indent in that state and after text
\* pushed behind it.
C30_IndentBelowWidth ==
    \A d \in {dest} \cup (IF last = NoCall THEN {} ELSE {last.before}) :
        /\ d.full_width = WIDTH
        /\ d.indent < d.full_width
        /\ (WIDTH = 60) => (d.indent <= 58)
        /\ NoUnderflow(d)
        /\ d.remaining_width <= d.full_width
        /\ newline_indent(d).remaining_width \in 1..d.full_width
        /\ space(newline_indent(d)).remaining_width \in 0..d.full_width
        /\ noscope_push(newline_needed(d), "begin").remaining_width \in 0..d.full_width

\* C30 happens: indent_small is refused at the largest indent, 58
C30_Witness ==
    /\ last.op = "indent_small"
    /\ last.before.indent = 58
    /\ ~last.ret
    /\ dest.indent = 58

=============================================================================
